---- MODULE Spec2Model ----
(***************************************************************************)
(* Verification model of the frog discrete-event radio network simulator   *)
(* (frogcore): the simulation kernel (event queue, EM field, notification  *)
(* table, reception decision) and its node models.                         *)
(*                                                                         *)
(* Units.  Time is an integer count of 8 microsecond units, which makes    *)
(* the LoRa symbol time, the preamble time and the slot time at 250 kHz    *)
(* bandwidth exact integers.  Powers are integers in half-dB, taken        *)
(* relative to the noise floor of the (fixed) 250 kHz bandwidth, so that a *)
(* received power and its SNR are the same number.                         *)
(***************************************************************************)
EXTENDS Integers, Sequences, FiniteSets, TLC

(***************************************************************************)
(* Bounds of the exploration (not program constants).                      *)
(***************************************************************************)
NumNodes == 3
MaxCalls == 3
MaxQueue == 5
StreamLen == 4
RngDen == 4
MaxCount == 6
MaxHops == 7

(***************************************************************************)
(* Program constants.                                                      *)
(***************************************************************************)
MILLIS == 125
SIM_END == 1800000000
HEADER_SIZE == 16
NODE_MESSAGE_SIZE == 8
MIN_RECEIVED_POWER == -20000
SNR_MIN == -30
SNR_MAX == 40
Broadcast == -1
\* 10 s
UTIL_PERIOD_LENGTH == 1250000
DEFAULT_HOP_LIMIT == 3
CW_MIN == 2
CW_MAX == 7
NUM_RETRANSMISSIONS == 3
\* 4500 ms
PROCESSING_TIME == 562500
\* the delay do_retransmissions starts from, i32::MAX ms: like it, later than
\* the cutoff and so longer than any delay to a pending retransmission; the
\* test delay < 48 h of run_routing_thread is the test delay < NO_DELAY
NO_DELAY == 2000000000
SECONDS == 125000
MAX_REBROADCASTS == 3
MIN_HOPS == 2
\* 0.65, in hundredths
REBROADCAST_PROB == 65

Nodes == 0 .. (NumNodes - 1)
NodeThread == {"RadioThread", "RoutingThread"}
None == "None"

VARIABLES
    sim_time,        \* Simulation.sim_time
    event_queue,     \* Simulation.event_queue: the BinaryHeap's backing array
    em_field,        \* Simulation.em_field
    next_trans_id,   \* Simulation.next_trans_id
    notify_status,   \* Simulation.notify_status
    logs,            \* Simulation.logs
    cached_power_at, \* PairWiseCaptureEffect.cached_power_at
    transmission_model, \* Simulation.transmission: the values its fading samples take
    node_settings,   \* Simulation.node_settings
    graph,           \* Simulation.graph (adjacency of the topology)
    test_messages,   \* Simulation.test_messages
    do_node_logs,    \* Simulation.do_node_logs
    nodes,           \* Simulation.nodes: the state of each node model
    rng,             \* Simulation.rng: the seeded stream and the position in it
    runs,            \* which run of run_simulation this is, its input, and the
                     \* output of the run before
    budget,          \* history: Context calls made, notifications set and
                     \* fired, receptions decided and flood_send calls so far
    obs              \* history: what the last dispatch did

vars == <<sim_time, event_queue, em_field, next_trans_id, notify_status, logs,
          cached_power_at, transmission_model, node_settings, graph, test_messages, do_node_logs,
          nodes, rng, runs, budget, obs>>

(***************************************************************************)
(* The event queue: std BinaryHeap<SimEvent> ordered by SimEvent::cmp,     *)
(* which compares the negated times only (a min-heap on time).  The heap   *)
(* is its backing array; position p of the array is index p + 1 here.      *)
(***************************************************************************)

\* SimEvent::cmp(a, b) == Greater, i.e. a is nearer the top of the heap
EventGreater(a, b) == a.time < b.time

\* hole.element() <= hole.get(other)
EventLessEq(a, b) == ~EventGreater(a, b)

RECURSIVE SiftUp(_, _, _)
SiftUp(data, elem, pos) ==
    IF pos > 0
    THEN LET parent == (pos - 1) \div 2 IN
         IF EventLessEq(elem, data[parent + 1])
         THEN [data EXCEPT ![pos + 1] = elem]
         ELSE SiftUp([data EXCEPT ![pos + 1] = data[parent + 1]], elem, parent)
    ELSE [data EXCEPT ![pos + 1] = elem]

RECURSIVE SiftDownToBottom(_, _, _)
SiftDownToBottom(data, elem, pos) ==
    LET end == Len(data)
        child == 2 * pos + 1
    IN  IF child + 2 <= end
        THEN LET c == IF EventLessEq(data[child + 1], data[child + 2])
                      THEN child + 1 ELSE child
             IN  SiftDownToBottom([data EXCEPT ![pos + 1] = data[c + 1]], elem, c)
        ELSE IF child = end - 1
             THEN SiftUp([data EXCEPT ![pos + 1] = data[child + 1]], elem, child)
             ELSE SiftUp(data, elem, pos)

\* BinaryHeap::push
HeapPush(q, e) == SiftUp(Append(q, e), e, Len(q))

\* BinaryHeap::pop: the event returned
HeapTop(q) == q[1]

\* BinaryHeap::pop: the heap left behind
HeapPop(q) ==
    IF Len(q) = 1 THEN <<>>
    ELSE LET item == q[Len(q)]
             rest == SubSeq(q, 1, Len(q) - 1)
         IN  SiftDownToBottom(rest, item, 0)


(***************************************************************************)
(* Radio arithmetic.                                                       *)
(***************************************************************************)
RECURSIVE Pow2(_)
Pow2(n) == IF n <= 0 THEN 1 ELSE 2 * Pow2(n - 1)

Max(a, b) == IF a >= b THEN a ELSE b
Min(a, b) == IF a <= b THEN a ELSE b

\* ceil(a / b) for b > 0
CeilDiv(a, b) == -((-a) \div b)

\* 2^sf / bandwidth at 250 kHz, in 8 microsecond units
symbol_time(sf) == Pow2(sf - 1)

\* lib.rs calculate_air_time; payload_size counts header and body
calculate_air_time(payload_size, radio_setting) ==
    LET sf == radio_setting.sf
        low_data_mode == symbol_time(sf) > 16 * MILLIS
        preamble_time == (81 * symbol_time(sf)) \div 4
        bits == 8 * payload_size - 4 * sf + 28 + 16
        adjusted_sf == IF low_data_mode THEN sf - 2 ELSE sf
        payload_symbols ==
            8 + Max(CeilDiv(bits * radio_setting.coding_rate, 4 * adjusted_sf), 0)
    IN  preamble_time + payload_symbols * symbol_time(sf)

\* snr_read_threshold, in half-dB: -2.5 * sf + 10
snr_read_threshold(sf) == -5 * sf + 20

\* SIR_THRESHOLDS of reception_at, in half-dB
SIR_THRESHOLDS ==
    << <<  2, -16, -18, -18, -18, -18>>,
       <<-22,   2, -22, -24, -26, -26>>,
       <<-30, -26,   2, -26, -28, -30>>,
       <<-38, -36, -34,   2, -34, -36>>,
       <<-44, -44, -42, -40,   2, -40>>,
       <<-50, -50, -50, -48, -46,   2>> >>

\* Transmission::overlaps
overlaps(a, b) == a.start_time < b.end_time /\ b.start_time < a.end_time

(***************************************************************************)
(* The simulation state as one record, so that a handler is a composition  *)
(* of the Context operations it calls.  The field draw holds the values    *)
(* the fading samples of the dispatch in progress take.                    *)
(***************************************************************************)
State ==
    [sim_time |-> sim_time, event_queue |-> event_queue, em_field |-> em_field,
     next_trans_id |-> next_trans_id, notify_status |-> notify_status,
     logs |-> logs, cached_power_at |-> cached_power_at,
     transmission_model |-> transmission_model,
     node_settings |-> node_settings, graph |-> graph,
     test_messages |-> test_messages, do_node_logs |-> do_node_logs,
     nodes |-> nodes, rng |-> rng, runs |-> runs, budget |-> budget,
     obs |-> obs, draw |-> <<>>]

Becomes(s) ==
    /\ sim_time' = s.sim_time
    /\ event_queue' = s.event_queue
    /\ em_field' = s.em_field
    /\ next_trans_id' = s.next_trans_id
    /\ notify_status' = s.notify_status
    /\ logs' = s.logs
    /\ cached_power_at' = s.cached_power_at
    /\ transmission_model' = s.transmission_model
    /\ node_settings' = s.node_settings
    /\ graph' = s.graph
    /\ test_messages' = s.test_messages
    /\ do_node_logs' = s.do_node_logs
    /\ nodes' = s.nodes
    /\ rng' = s.rng
    /\ runs' = s.runs
    /\ budget' = s.budget
    /\ obs' = s.obs

\* The record of a dispatch that the history variable obs starts from
NewObs(event, s, old_time) ==
    [action |-> event.action, node_id |-> event.node_id, arg |-> event.arg,
     time |-> event.time, prev_time |-> old_time,
     busy |-> FALSE, result |-> None, calls |-> <<>>, nl |-> <<>>,
     panicked |-> FALSE,
     pre |-> [sim_time |-> s.sim_time, em_field |-> s.em_field,
              next_trans_id |-> s.next_trans_id, logs |-> s.logs,
              event_queue |-> s.event_queue, notify_status |-> s.notify_status,
              cached_power_at |-> s.cached_power_at,
              nodes |-> s.nodes, routed |-> s.budget.routed,
              handed |-> s.budget.handed]]

\* history: the node model's callback name was entered with these arguments
Called(s, name, args) ==
    [s EXCEPT !.obs.calls = Append(@, [name |-> name, args |-> args])]

\* history: was callback name entered during the last dispatch
WasCalled(name) == \E i \in DOMAIN obs.calls : obs.calls[i].name = name

(***************************************************************************)
(* Context: what a node model may do to the simulation.                    *)
(***************************************************************************)

\* history: a count of calls, kept up to MaxCount
Counted(n) == IF n < MaxCount THEN n + 1 ELSE n

\* Context::log
log(s, node_id, text) ==
    IF s.do_node_logs
    THEN [s EXCEPT !.logs = Append(@, [time |-> s.sim_time, source |-> node_id,
                                        content |-> [type |-> "Text", text |-> text]])]
    ELSE s

\* a faulty enqueue_send: schedules the send at reaction_time, not at
\* sim_time + reaction_time
enqueue_send_absolute(s, node_id, header, message_content) ==
    [s EXCEPT
       !.event_queue = HeapPush(@,
           [time |-> s.node_settings[node_id].reaction_time,
            action |-> "SendMessage", node_id |-> node_id,
            arg |-> [header |-> header, message_content |-> message_content]]),
       !.budget.sends = Counted(@)]

\* Context::enqueue_send
enqueue_send(s, node_id, header, message_content) ==
    [s EXCEPT
       !.event_queue = HeapPush(@,
           [time |-> s.sim_time + s.node_settings[node_id].reaction_time,
            action |-> "SendMessage", node_id |-> node_id,
            arg |-> [header |-> header, message_content |-> message_content]]),
       !.budget.sends = Counted(@)]

\* Context::register_thread
register_thread(s, node_id, thread) ==
    [s EXCEPT !.notify_status[node_id][thread] =
                  [notification |-> None, at_time |-> 0]]

\* a faulty condition: a pending notification due exactly now counts as past
NotifyLaterSetsDueNow(notify_state, now, should_override) ==
    \/ should_override
    \/ notify_state.at_time <= now
    \/ notify_state.notification = None

\* The condition under which notify_later registers the notification
NotifyLaterSets(notify_state, now, should_override) ==
    \/ should_override
    \/ notify_state.at_time < now
    \/ notify_state.notification = None

\* Context::notify_later
notify_later(s, node_id, delay, notif, thread, should_override) ==
    LET status == s.notify_status[node_id][thread]
        notify_time == s.sim_time + delay
        set == [s EXCEPT
                  !.notify_status[node_id][thread] =
                      [notification |-> notif, at_time |-> notify_time],
                  !.event_queue = HeapPush(@,
                      [time |-> notify_time, action |-> "MaybeNotify",
                       node_id |-> node_id, arg |-> thread]),
                  !.budget.notifies = Counted(@),
                  !.budget.sets[node_id][thread] = Counted(@),
                  !.budget.zero_delays = IF delay = 0 THEN Counted(@) ELSE @]
        after == IF NotifyLaterSets(status, s.sim_time, should_override)
                 THEN set ELSE s
    IN  [after EXCEPT !.obs.nl = Append(@,
            [node_id |-> node_id, thread |-> thread, delay |-> delay,
             notif |-> notif, should_override |-> should_override,
             now |-> s.sim_time, pre_status |-> s.notify_status,
             post_status |-> after.notify_status,
             pre_queue |-> s.event_queue, post_queue |-> after.event_queue])]

\* Simulation::active_transmissions / Context::active_transmissions:
\* em_field.iter().rev().take_while(|x| x.end_time >= t)
RECURSIVE RevTakeWhileEndsAfter(_, _)
RevTakeWhileEndsAfter(field, t) ==
    IF field = <<>> \/ field[Len(field)].end_time < t
    THEN <<>>
    ELSE <<field[Len(field)]>>
             \o RevTakeWhileEndsAfter(SubSeq(field, 1, Len(field) - 1), t)

active_transmissions(s) == RevTakeWhileEndsAfter(s.em_field, s.sim_time)

\* a faulty is_transmitting: looks at the latest-ending transmission only
is_transmitting_latest(s, node_id) ==
    /\ s.em_field # <<>>
    /\ s.em_field[Len(s.em_field)].end_time >= s.sim_time
    /\ s.em_field[Len(s.em_field)].transmitter_id = node_id

\* Simulation::is_transmitting / Context::is_transmitting
is_transmitting(s, node_id) ==
    \E i \in DOMAIN active_transmissions(s) :
        active_transmissions(s)[i].transmitter_id = node_id

(***************************************************************************)
(* Node models.  A node model is any implementation of ImplNodeModel; the  *)
(* kernel's contract is checked against the model "Any", which answers     *)
(* each callback with any one Context call (or none).                      *)
(***************************************************************************)
Delays == {0, MILLIS}
AnyThreads == {"RoutingThread"}

NotificationOf(thread) ==
    IF thread = "RadioThread" THEN "TransmitDelayCompleted" ELSE "Routing"

basic_header(sender_id, packet_id, dest) ==
    [dest |-> dest, sender |-> sender_id, packet_id |-> packet_id]

Empty == [type |-> "Empty"]
GeneratedMessage(message_id) == [type |-> "GeneratedMessage", id |-> message_id]

\* MessageInfo::std_destination
std_destination(message_info) ==
    IF Cardinality(message_info.targets) = 1
    THEN CHOOSE n \in message_info.targets : TRUE
    ELSE Broadcast

\* The Context calls open to a callback of the model "Any"
AnyCalls(s, node_id, message_content) ==
    {s}
    \cup (IF s.budget.sends + s.budget.notifies < MaxCalls
          THEN {enqueue_send(s, node_id, basic_header(node_id, 0, Broadcast),
                             message_content)}
          ELSE {})
    \cup (IF s.budget.sends + s.budget.notifies < MaxCalls
          THEN {notify_later(s, node_id, d, NotificationOf(th), th, o) :
                    d \in Delays, th \in AnyThreads, o \in BOOLEAN}
          ELSE {})

\* ImplNodeModel::handle_error: every node model of the repository only logs
handle_error(s, node_id, header, message_content) ==
    {log(Called(s, "handle_error",
                [error |-> "RadioBusyError", header |-> header,
                 message_content |-> message_content]),
         node_id, <<"Radio busy error">>)}

(***************************************************************************)
(* The EM field (simulation/em.rs).                                        *)
(***************************************************************************)

\* Simulation::message_size
message_size(s, message_content) ==
    IF message_content.type = "GeneratedMessage"
    THEN s.test_messages[message_content.id + 1].size
    ELSE IF message_content.type = "Empty" THEN 0
    ELSE NODE_MESSAGE_SIZE

\* a faulty insert position: always the end of the field
insert_pos_append(field, transmission) == Len(field)

\* the position insert_transmission inserts at
insert_pos(field, transmission) ==
    LET before == {n \in DOMAIN field : field[n].end_time < transmission.end_time}
    IN  IF before = {} THEN 0
        ELSE CHOOSE n \in before : \A m \in before : m <= n

\* Simulation::insert_transmission
insert_transmission(field, transmission) ==
    LET pos == insert_pos(field, transmission)
    IN  SubSeq(field, 1, pos) \o <<transmission>> \o SubSeq(field, pos + 1, Len(field))

\* NodeLocation::get_adj, in iteration order
RECURSIVE SetToSeq(_)
SetToSeq(S) ==
    IF S = {} THEN <<>>
    ELSE LET x == CHOOSE y \in S : \A z \in S : y <= z
         IN  <<x>> \o SetToSeq(S \ {x})

\* a faulty get_adj: every node of the simulation
get_adj_every_node(s, node_id) == SetToSeq(Nodes)

get_adj(s, node_id) == SetToSeq(s.graph.adj[node_id])

RECURSIVE PushReceives(_, _, _, _)
PushReceives(queue, receivers, end_time, transmission_id) ==
    IF receivers = <<>> THEN queue
    ELSE PushReceives(
             HeapPush(queue, [time |-> end_time, action |-> "RecieveMessage",
                              node_id |-> Head(receivers), arg |-> transmission_id]),
             Tail(receivers), end_time, transmission_id)

\* the transmission try_broadcast builds and what it does with it
broadcast(s, sender_id, header, message_content, transmission_id) ==
    LET settings == s.node_settings[sender_id]
        end_time == s.sim_time
            + calculate_air_time(message_size(s, message_content) + HEADER_SIZE,
                                 settings)
        transmission ==
            [id |-> transmission_id, transmitter_id |-> sender_id,
             start_time |-> s.sim_time, end_time |-> end_time,
             sf |-> settings.sf, power |-> settings.use_power,
             carrier_band |-> settings.carrier_band,
             header |-> header, message_content |-> message_content]
    IN  [s EXCEPT
           !.em_field = insert_transmission(@, transmission),
           !.event_queue = PushReceives(@, get_adj(s, sender_id), end_time,
                                        transmission_id),
           !.logs = Append(@, [time |-> s.sim_time, source |-> -1,
               content |-> [type |-> "TransmissionSent",
                            sender_id |-> sender_id,
                            transmission_id |-> transmission_id]])]

\* a faulty new_trans_id: hands out the id without advancing the counter
new_trans_id_kept(s) == s

\* Simulation::new_trans_id: the simulation after the id was taken
new_trans_id(s) == [s EXCEPT !.next_trans_id = @ + 1]

\* a faulty try_broadcast: takes the transmission id before the busy check
try_broadcast_id_first(s, sender_id, header, message_content) ==
    LET s1 == new_trans_id(s) IN
    IF is_transmitting(s1, sender_id)
    THEN handle_error([s1 EXCEPT !.obs.busy = TRUE], sender_id, header,
                      message_content)
    ELSE {broadcast(s1, sender_id, header, message_content, s.next_trans_id)}

\* Simulation::try_broadcast
try_broadcast(s, sender_id, header, message_content) ==
    IF is_transmitting(s, sender_id)
    THEN handle_error([s EXCEPT !.obs.busy = TRUE], sender_id, header, message_content)
    ELSE {broadcast(new_trans_id(s), sender_id, header, message_content,
                    s.next_trans_id)}

(***************************************************************************)
(* The transmission model PairWiseCaptureEffect (simulation/models.rs).    *)
(* A received power is pathloss at the current distance plus one sample of *)
(* the fading distribution: one of the values of random_fading, fixed for     *)
(* the (transmission, receiver) pair once it has been computed.            *)
(***************************************************************************)
\* a fading distribution whose samples leave the power below every read
\* threshold or well above it
WeakOrStrong == {-40, 10}

\* the same with a third sample that lifts the power above SNR_MAX
WeakStrongOrNear == {-40, 10, 50}

\* NoneDist, the fading of the default transmission model, on links so long
\* that the power is below every read threshold, or short enough to be read
Weak == {-40}
Strong == {10}

\* NodeLocation::distance_to is Some: always for points, along an edge in a graph
has_distance(s, from_id, to_id) ==
    s.graph.kind = "Points" \/ to_id \in s.graph.adj[from_id]

IsCached(cache, id, at_node) == <<id, at_node>> \in DOMAIN cache

\* PairWiseCaptureEffect::power_at: the power returned
power_at(s, cache, at_node, target, draw) ==
    IF IsCached(cache, target.id, at_node) THEN cache[<<target.id, at_node>>]
    ELSE IF ~has_distance(s, target.transmitter_id, at_node) THEN MIN_RECEIVED_POWER
    ELSE draw[target.id]

\* PairWiseCaptureEffect::power_at: the cache it leaves
power_cached(s, cache, at_node, target, draw) ==
    IF IsCached(cache, target.id, at_node)
       \/ ~has_distance(s, target.transmitter_id, at_node)
    THEN cache
    ELSE cache @@ (<<target.id, at_node>> :> draw[target.id])

\* a faulty closure: a ratio equal to the threshold does not block
blocks_below(s, cache, at_node, transmission, target_power, x, draw) ==
    IF x.id = transmission.id THEN FALSE
    ELSE IF x.transmitter_id = at_node THEN TRUE
    ELSE IF x.carrier_band # transmission.carrier_band THEN FALSE
    ELSE target_power - power_at(s, cache, at_node, x, draw)
             < SIR_THRESHOLDS[transmission.sf - 6][x.sf - 6]

\* the closure reception_at hands to find: does x block the target
blocks(s, cache, at_node, transmission, target_power, x, draw) ==
    IF x.id = transmission.id THEN FALSE
    ELSE IF x.transmitter_id = at_node THEN TRUE
    ELSE IF x.carrier_band # transmission.carrier_band THEN FALSE
    ELSE target_power - power_at(s, cache, at_node, x, draw)
             <= SIR_THRESHOLDS[transmission.sf - 6][x.sf - 6]

\* does the closure compute the power of x
blocks_reads_power(at_node, transmission, x) ==
    /\ x.id # transmission.id
    /\ x.transmitter_id # at_node
    /\ x.carrier_band = transmission.carrier_band

\* Iterator::find over the candidates, newest first
RECURSIVE find_blocker(_, _, _, _, _, _, _)
find_blocker(s, cache, at_node, transmission, target_power, candidates, draw) ==
    IF candidates = <<>> THEN [blocker_id |-> -1, cache |-> cache]
    ELSE LET x == Head(candidates)
             cache2 == IF blocks_reads_power(at_node, transmission, x)
                       THEN power_cached(s, cache, at_node, x, draw)
                       ELSE cache
         IN  IF blocks(s, cache, at_node, transmission, target_power, x, draw)
             THEN [blocker_id |-> x.id, cache |-> cache2]
             ELSE find_blocker(s, cache2, at_node, transmission, target_power,
                               Tail(candidates), draw)

Clamp(x, lo, hi) == Max(lo, Min(x, hi))

\* a faulty decision: looks for a blocker before it looks at the SNR
reception_among_blocker_first(s, at_node, transmission, draw, candidates) ==
    LET target_power == power_at(s, s.cached_power_at, at_node, transmission, draw)
        cache1 == power_cached(s, s.cached_power_at, at_node, transmission, draw)
        found == find_blocker(s, cache1, at_node, transmission, target_power,
                              candidates, draw)
    IN  IF found.blocker_id # -1
        THEN [result |-> "Blocked", blocker_id |-> found.blocker_id,
              snr |-> target_power, cache |-> found.cache]
        ELSE IF target_power < snr_read_threshold(transmission.sf)
        THEN [result |-> "TooWeak", blocker_id |-> -1, snr |-> target_power,
              cache |-> found.cache]
        ELSE [result |-> "Success", blocker_id |-> -1,
              snr |-> Clamp(target_power, SNR_MIN, SNR_MAX), cache |-> found.cache]

\* the decision of reception_at among these candidate blockers
reception_among(s, at_node, transmission, draw, candidates) ==
    LET target_power == power_at(s, s.cached_power_at, at_node, transmission, draw)
        cache1 == power_cached(s, s.cached_power_at, at_node, transmission, draw)
        snr == target_power
        found == find_blocker(s, cache1, at_node, transmission, target_power,
                              candidates, draw)
    IN  IF snr < snr_read_threshold(transmission.sf)
        THEN [result |-> "TooWeak", blocker_id |-> -1, snr |-> snr, cache |-> cache1]
        ELSE IF found.blocker_id # -1
        THEN [result |-> "Blocked", blocker_id |-> found.blocker_id, snr |-> snr,
              cache |-> found.cache]
        ELSE [result |-> "Success", blocker_id |-> -1,
              snr |-> Clamp(snr, SNR_MIN, SNR_MAX), cache |-> found.cache]

\* a faulty reception_at: its candidates are the transmissions still active
\* now, not those that ended since the target started
reception_at_active_now(s, at_node, transmission, draw) ==
    reception_among(s, at_node, transmission, draw, active_transmissions(s))

\* PairWiseCaptureEffect::reception_at
reception_at(s, at_node, transmission, draw) ==
    reception_among(s, at_node, transmission, draw,
                    RevTakeWhileEndsAfter(s.em_field, transmission.start_time))

\* the transmissions whose power at at_node a reception decision may sample
samples_needed(s, at_node, transmission) ==
    LET candidates == RevTakeWhileEndsAfter(s.em_field, transmission.start_time)
        all == {candidates[i] : i \in DOMAIN candidates} \cup {transmission}
    IN  {x.id : x \in {y \in all :
                 /\ ~IsCached(s.cached_power_at, y.id, at_node)
                 /\ has_distance(s, y.transmitter_id, at_node)
                 /\ (y.id = transmission.id
                        \/ blocks_reads_power(at_node, transmission, y))}}

(***************************************************************************)
(* Context: what a node observes of the channel, and the seeded RNG.       *)
(***************************************************************************)

\* snr_detect_threshold, in half-dB
snr_detect_threshold(sf) == -5 * sf + 20

\* PairWiseCaptureEffect::detected_at: the answer
detected_at(s, cache, at_node, x) ==
    /\ s.node_settings[at_node].carrier_band = x.carrier_band
    /\ power_at(s, cache, at_node, x, s.draw) >= snr_detect_threshold(x.sf)

\* PairWiseCaptureEffect::detected_at: the power cache it leaves
detected_cache(s, cache, at_node, x) ==
    IF s.node_settings[at_node].carrier_band # x.carrier_band THEN cache
    ELSE power_cached(s, cache, at_node, x, s.draw)

\* PairWiseCaptureEffect::detecting_any_at over the active transmissions,
\* newest first, stopping at the first one detected
RECURSIVE detecting_any_at(_, _, _, _)
detecting_any_at(s, cache, at_node, candidates) ==
    IF candidates = <<>> THEN [result |-> FALSE, cache |-> cache]
    ELSE LET x == Head(candidates)
             cache2 == detected_cache(s, cache, at_node, x)
         IN  IF detected_at(s, cache, at_node, x)
             THEN [result |-> TRUE, cache |-> cache2]
             ELSE detecting_any_at(s, cache2, at_node, Tail(candidates))

\* Context::channel_in_use
channel_in_use(s, node_id) ==
    detecting_any_at(s, s.cached_power_at, node_id, active_transmissions(s))

\* the loop of observed_utalisation without its end_clamp: every detected
\* transmission is counted up to the current time
RECURSIVE observation_range_unclamped(_, _, _, _, _, _, _)
observation_range_unclamped(s, cache, at_node, candidates, end_clamp, start_clamp, total) ==
    IF candidates = <<>> THEN [total |-> total, cache |-> cache]
    ELSE LET x == Head(candidates)
             counted == detected_at(s, cache, at_node, x) /\ x.start_time < end_clamp
         IN  observation_range_unclamped(
                 s, detected_cache(s, cache, at_node, x), at_node, Tail(candidates),
                 end_clamp, start_clamp,
                 IF counted
                 THEN total + Min(x.end_time, end_clamp) - Max(x.start_time, start_clamp)
                 ELSE total)

\* the loop of observed_utalisation over the detected transmissions
RECURSIVE observation_range(_, _, _, _, _, _, _)
observation_range(s, cache, at_node, candidates, end_clamp, start_clamp, total) ==
    IF candidates = <<>> THEN [total |-> total, cache |-> cache]
    ELSE LET x == Head(candidates)
             cache2 == detected_cache(s, cache, at_node, x)
             counted == detected_at(s, cache, at_node, x) /\ x.start_time < end_clamp
             total2 == IF counted
                       THEN total + Min(x.end_time, end_clamp)
                                  - Max(x.start_time, start_clamp)
                       ELSE total
             end2 == IF counted THEN x.start_time ELSE end_clamp
         IN  IF counted /\ end2 < start_clamp
             THEN [total |-> total2, cache |-> cache2]
             ELSE observation_range(s, cache2, at_node, Tail(candidates), end2,
                                    start_clamp, total2)

\* Context::observed_utalisation: the time counted, the window it is divided
\* by, and the power cache left
observed_utalisation(s, at_node) ==
    LET look_back_time == 5 * UTIL_PERIOD_LENGTH + (s.sim_time % UTIL_PERIOD_LENGTH)
        limit_time == s.sim_time - look_back_time
        seen == observation_range(s, s.cached_power_at, at_node,
                    RevTakeWhileEndsAfter(s.em_field, limit_time),
                    s.sim_time, limit_time, 0)
    IN  [total |-> seen.total, look_back_time |-> look_back_time,
         cache |-> seen.cache]

\* floor(channel_utilisation() * CW_DIFF) + CW_MIN
utilisation_window(s, node_id) ==
    LET u == observed_utalisation(s, node_id)
    IN  (u.total * (CW_MAX - CW_MIN)) \div u.look_back_time + CW_MIN

\* Context::channel_utilisation: the simulation after the call
channel_utilisation(s, node_id) ==
    [s EXCEPT !.cached_power_at = observed_utalisation(s, node_id).cache]

\* ChaCha12Rng::seed_from_u64: the stream a seed stands for, as numerators
\* of uniform values in [0, 1) over RngDen
seed_from_u64(seed) ==
    [stream |-> [i \in 1 .. StreamLen |-> ((seed + i * (2 * seed + 1)) % RngDen)],
     pos |-> 0]

\* a faulty draw: every backoff drawn is of length zero
rng_floor_zero(s, max) == 0

\* floor(context.rng(0.0, max))
rng_floor(s, max) == (s.rng.stream[s.rng.pos + 1] * max) \div RngDen

\* context.rng(min, max) seconds, as a time
rng_seconds(s, min, max) ==
    min * SECONDS + (s.rng.stream[s.rng.pos + 1] * (max - min) * SECONDS) \div RngDen

\* Context::rng: the simulation after the draw
rng_drawn(s) == [s EXCEPT !.rng.pos = (@ + 1) % StreamLen]

(***************************************************************************)
(* MeshtasticRadioInterface (node/meshtastic.rs).                          *)
(***************************************************************************)

\* slot_time at 250 kHz: 8.5 symbols and 7.6 ms
slot_time(settings) == (17 * symbol_time(settings.sf)) \div 2 + 950

global_id(packet) ==
    [node_id |-> packet.header.sender, packet_id |-> packet.header.packet_id]

\* MeshtasticRadioInterface::get_tx_delay and get_weighted_tx_delay: the
\* delay drawn for the packet at the front of the queue
tx_delay(s, node_id, packet) ==
    LET settings == s.node_settings[node_id]
    IN  IF packet.snr = <<>>
        THEN rng_floor(s, Pow2(utilisation_window(s, node_id))) * slot_time(settings)
        ELSE LET unity == Clamp(packet.snr[1] - SNR_MIN, 0, SNR_MAX - SNR_MIN)
                 window_size == (unity * (CW_MAX - CW_MIN)) \div (SNR_MAX - SNR_MIN)
                                    + CW_MIN
             IN  (2 * CW_MAX + rng_floor(s, Pow2(window_size))) * slot_time(settings)

\* MeshtasticRadioInterface::set_transmit_delay
set_transmit_delay(s, node_id) ==
    LET tx_queue == s.nodes[node_id].tx_queue
        packet == Head(tx_queue)
        s1 == IF packet.snr = <<>> THEN channel_utilisation(s, node_id) ELSE s
    IN  IF tx_queue = <<>> THEN s
        ELSE notify_later(rng_drawn(s1), node_id, tx_delay(s, node_id, packet),
                          "TransmitDelayCompleted", "RadioThread", FALSE)

\* MeshtasticRadioInterface::priority_send
priority_send(s, node_id, packet) ==
    set_transmit_delay([s EXCEPT !.nodes[node_id].tx_queue = <<packet>> \o @],
                       node_id)

\* a faulty send: pushes to the front of the queue
send_to_front(s, node_id, packet) == priority_send(s, node_id, packet)

\* MeshtasticRadioInterface::send; history: the call is recorded in
\* budget.handed
send(s, node_id, packet) ==
    set_transmit_delay(
        [s EXCEPT !.nodes[node_id].tx_queue = Append(@, packet),
                  !.budget.handed =
                      Append(@, [node_id |-> node_id, header |-> packet.header,
                                 content |-> packet.message_content,
                                 time |-> s.sim_time])],
        node_id)

\* a faulty cancel_sending: the call is logged and the queue is left as it is
cancel_sending_logged(s, node_id, key) == log(s, node_id, <<"cancel_sending called for", key>>)

\* MeshtasticRadioInterface::cancel_sending
cancel_sending(s, node_id, key) ==
    LET s1 == log(s, node_id, <<"cancel_sending called for", key>>)
        tx_queue == s.nodes[node_id].tx_queue
        found == {i \in DOMAIN tx_queue : global_id(tx_queue[i]) = key}
        index == CHOOSE i \in found : \A j \in found : i <= j
    IN  IF found = {} THEN s1
        ELSE [s1 EXCEPT !.nodes[node_id].tx_queue =
                 SubSeq(@, 1, index - 1) \o SubSeq(@, index + 1, Len(@))]

\* a faulty on_get_notified: the channel is not listened to before the
\* packet is handed over
on_get_notified_deaf(s, node_id, notification) ==
    LET tx_queue == s.nodes[node_id].tx_queue
        packet == Head(tx_queue)
    IN  IF notification # "TransmitDelayCompleted" \/ tx_queue = <<>> THEN s
        ELSE set_transmit_delay(
                 IF is_transmitting(s, node_id) THEN s
                 ELSE enqueue_send([s EXCEPT !.nodes[node_id].tx_queue = Tail(@)],
                                   node_id, packet.header, packet.message_content),
                 node_id)

\* a faulty on_get_notified, as in the firmware: the Radio thread is not
\* re-armed after a packet was handed over
on_get_notified_firmware(s, node_id, notification) ==
    LET tx_queue == s.nodes[node_id].tx_queue
        packet == Head(tx_queue)
        free_to_send(in_use) ==
            IF in_use.result
            THEN set_transmit_delay([s EXCEPT !.cached_power_at = in_use.cache],
                                    node_id)
            ELSE enqueue_send(
                     [s EXCEPT !.cached_power_at = in_use.cache,
                               !.nodes[node_id].tx_queue = Tail(@)],
                     node_id, packet.header, packet.message_content)
    IN  IF notification # "TransmitDelayCompleted" \/ tx_queue = <<>> THEN s
        ELSE IF is_transmitting(s, node_id) THEN set_transmit_delay(s, node_id)
        ELSE free_to_send(channel_in_use(s, node_id))

\* MeshtasticRadioInterface::on_get_notified
on_get_notified(s, node_id, notification) ==
    LET tx_queue == s.nodes[node_id].tx_queue
        packet == Head(tx_queue)
        \* the node is not transmitting and has looked at the channel
        free_to_send(in_use) ==
            IF in_use.result THEN [s EXCEPT !.cached_power_at = in_use.cache]
            ELSE enqueue_send(
                     [s EXCEPT !.cached_power_at = in_use.cache,
                               !.nodes[node_id].tx_queue = Tail(@)],
                     node_id, packet.header, packet.message_content)
    IN  IF notification # "TransmitDelayCompleted" \/ tx_queue = <<>> THEN s
        ELSE set_transmit_delay(
                 IF is_transmitting(s, node_id) THEN s
                 ELSE free_to_send(channel_in_use(s, node_id)),
                 node_id)

(***************************************************************************)
(* The node model Meshtastic (node/meshtastic.rs).                         *)
(***************************************************************************)

\* Meshtastic::new
MeshtasticNew ==
    [model |-> "Meshtastic", tx_queue |-> <<>>, from_radio_queue |-> <<>>,
     pending |-> <<>>, seen_recently |-> {}, next_packet_id |-> 0]

is_to_node(dest, node_id) == dest # Broadcast /\ dest = node_id

\* Meshtastic::get_retransmission_delay
get_retransmission_delay(s, node_id, packet) ==
    LET settings == s.node_settings[node_id]
    IN  2 * calculate_air_time(packet.size, settings)
        + (Pow2(utilisation_window(s, node_id)) + 2 * CW_MAX) * MILLIS
        + Pow2(CW_MAX + CW_MIN \div 2) * slot_time(settings)
        + PROCESSING_TIME

\* Meshtastic::set_next_tx_for_pending, for the entry of the pending map
\* under key
set_next_tx_for_pending(s, node_id, key) ==
    LET delay == get_retransmission_delay(s, node_id,
                                          s.nodes[node_id].pending[key].packet)
        s1 == channel_utilisation(s, node_id)
    IN  notify_later(
            [s1 EXCEPT !.nodes[node_id].pending[key].next_tx = s.sim_time + delay],
            node_id, MILLIS, "Routing", "RoutingThread", TRUE)

\* Meshtastic::stop_retransmission
stop_retransmission(s, node_id, key) ==
    LET pending == s.nodes[node_id].pending
        s1 == IF pending[key].num_retransmissions < NUM_RETRANSMISSIONS - 1
              THEN cancel_sending(s, node_id, key) ELSE s
    IN  IF key \notin DOMAIN pending THEN s
        ELSE [s1 EXCEPT !.nodes[node_id].pending =
                 [k \in DOMAIN pending \ {key} |-> pending[k]]]

\* a faulty pending entry: one retransmission more than NUM_RETRANSMISSIONS
\* allows
start_retransmission_once_more(s, node_id, packet) ==
    LET key == global_id(packet)
        s1 == stop_retransmission(s, node_id, key)
        as_pending == [packet |-> packet, next_tx |-> 0,
                       num_retransmissions |-> NUM_RETRANSMISSIONS]
    IN  set_next_tx_for_pending(
            [s1 EXCEPT !.nodes[node_id].pending = (key :> as_pending) @@ @],
            node_id, key)

\* Meshtastic::start_retransmission; the entry is put into the map before
\* its next_tx is set
start_retransmission(s, node_id, packet) ==
    LET key == global_id(packet)
        s1 == stop_retransmission(s, node_id, key)
        as_pending == [packet |-> packet, next_tx |-> 0,
                       num_retransmissions |-> NUM_RETRANSMISSIONS - 1]
    IN  set_next_tx_for_pending(
            [s1 EXCEPT !.nodes[node_id].pending = (key :> as_pending) @@ @],
            node_id, key)

\* pending.iter_mut().for_each(next_tx += air time of the packet), over the
\* entries with these keys
pending_later(s, node_id, keys, packet) ==
    [s EXCEPT !.nodes[node_id].pending =
        [k \in DOMAIN @ |->
            IF k \in keys
            THEN [@[k] EXCEPT !.next_tx =
                     @ + calculate_air_time(packet.size, s.node_settings[node_id])]
            ELSE @[k]]]

\* a faulty was_seen_recently: the packet is not remembered
was_seen_recently_forgetful(s, node_id, packet) == s

\* Meshtastic::was_seen_recently: the simulation after the call
was_seen_recently(s, node_id, packet) ==
    IF global_id(packet) \in s.nodes[node_id].seen_recently THEN s
    ELSE log([s EXCEPT !.nodes[node_id].seen_recently = @ \cup {global_id(packet)}],
             node_id, <<"added to seen_recently", global_id(packet)>>)

\* Meshtastic::base_send; its panic is recorded in obs.panicked
base_send(s, node_id, packet) ==
    LET s1 == IF is_to_node(packet.header.dest, node_id)
              THEN [s EXCEPT !.obs.panicked = TRUE] ELSE s
        p1 == IF packet.header.dest = Broadcast
              THEN [packet EXCEPT !.header.want_ack = FALSE] ELSE packet
        p2 == IF packet.header.sender = node_id
              THEN [p1 EXCEPT !.header.hop_start = p1.header.hop_limit] ELSE p1
    IN  send(s1, node_id, p2)

\* Meshtastic::flood_send; history: the call is recorded in budget.floods
flood_send(s, node_id, packet) ==
    base_send(
        was_seen_recently(
            [s EXCEPT !.budget.floods =
                Append(@, [node_id |-> node_id, key |-> global_id(packet),
                           time |-> s.sim_time])],
            node_id, packet),
        node_id, packet)

\* Meshtastic::reliable_send
reliable_send(s, node_id, packet) ==
    LET p == IF packet.header.want_ack /\ packet.header.hop_limit = 0
             THEN [packet EXCEPT !.header.hop_limit = DEFAULT_HOP_LIMIT]
             ELSE packet
        \* the other pending packets wait for this one, then it is sent
        sent(s1) ==
            flood_send(
                pending_later(s1, node_id,
                    {k \in DOMAIN s1.nodes[node_id].pending :
                         k.packet_id # p.header.packet_id}, p),
                node_id, p)
    IN  sent(IF p.header.want_ack THEN start_retransmission(s, node_id, p) ELSE s)

\* a faulty perhaps_rebroadcast: the hop limit is not looked at
rebroadcasts_always(node_id, packet) == ~is_to_node(packet.header.dest, node_id) /\ packet.header.sender # node_id

\* the condition of Meshtastic::perhaps_rebroadcast
rebroadcasts(node_id, packet) ==
    /\ ~is_to_node(packet.header.dest, node_id)
    /\ packet.header.sender # node_id
    /\ packet.header.hop_limit > 0

\* Meshtastic::perhaps_rebroadcast
perhaps_rebroadcast(s, node_id, packet) ==
    IF rebroadcasts(node_id, packet)
    THEN base_send(s, node_id, [packet EXCEPT !.header.hop_limit = @ - 1])
    ELSE s

\* a faulty get_hop_limit_for_response: the hops used are not looked at
get_hop_limit_for_response_default(hop_start, hop_limit) == DEFAULT_HOP_LIMIT

\* Meshtastic::get_hop_limit_for_response
get_hop_limit_for_response(hop_start, hop_limit) ==
    LET hops_used == IF hop_start < hop_limit THEN DEFAULT_HOP_LIMIT
                     ELSE hop_start - hop_limit
    IN  IF hop_start # 0 /\ hops_used > DEFAULT_HOP_LIMIT THEN hops_used
        ELSE IF hop_start # 0 /\ hops_used + 2 < DEFAULT_HOP_LIMIT THEN hops_used + 2
        ELSE DEFAULT_HOP_LIMIT

\* send_local_to_node without the branch for a packet to the node itself
send_local_to_radio(s, node_id, packet) == reliable_send(s, node_id, packet)

\* Meshtastic::send_local for a packet that is not a broadcast
send_local_to_node(s, node_id, packet) ==
    IF is_to_node(packet.header.dest, node_id)
    THEN notify_later(
             [s EXCEPT !.nodes[node_id].from_radio_queue = Append(@, packet)],
             node_id, MILLIS, "Routing", "RoutingThread", TRUE)
    ELSE reliable_send(s, node_id, packet)

\* Meshtastic::send_ack_nak; its packet is never a broadcast
send_ack_nak(s, node_id, status, dest, packet_id, hop_limit) ==
    LET packet ==
            [header |-> [dest |-> dest, sender |-> node_id,
                         packet_id |-> s.nodes[node_id].next_packet_id,
                         hop_limit |-> hop_limit, hop_start |-> hop_limit,
                         want_ack |-> FALSE],
             message_content |-> [type |-> "NodeMessage", status |-> status,
                                  about_id |-> packet_id],
             size |-> 0, snr |-> <<>>]
    IN  send_local_to_node([s EXCEPT !.nodes[node_id].next_packet_id = @ + 1],
                           node_id, packet)

\* Meshtastic::flood_sniff_received
flood_sniff_received(s, node_id, packet, was_ack_or_reply) ==
    LET s1 == IF /\ was_ack_or_reply
                 /\ ~is_to_node(packet.header.dest, node_id)
                 /\ packet.header.dest # Broadcast
              THEN cancel_sending(s, node_id, global_id(packet)) ELSE s
    IN  perhaps_rebroadcast(s1, node_id, packet)

\* Meshtastic::reliable_sniff_received
reliable_sniff_received(s, node_id, packet) ==
    LET header == packet.header
        is_routing == packet.message_content.type = "NodeMessage"
        acks == /\ header.want_ack
                /\ \/ ~is_routing
                   \/ header.hop_start > 0 /\ header.hop_start = header.hop_limit
        \* an Ack or a Nak stops the retransmission it is about
        stopped(s1) ==
            IF is_routing
            THEN stop_retransmission(s1, node_id,
                     [node_id |-> node_id,
                      packet_id |-> packet.message_content.about_id])
            ELSE s1
        to_us == stopped(
            IF acks
            THEN send_ack_nak(s, node_id, "NotError", header.sender,
                     header.packet_id,
                     IF is_routing THEN 0
                     ELSE get_hop_limit_for_response(header.hop_start,
                                                     header.hop_limit))
            ELSE s)
    IN  flood_sniff_received(
            IF is_to_node(header.dest, node_id) THEN to_us ELSE s,
            node_id, packet, is_routing)

\* Meshtastic::handle_received
handle_received(s, node_id, packet) ==
    reliable_sniff_received(log(s, node_id, <<"Received", packet>>),
                            node_id, packet)

\* Meshtastic::send_local
send_local(s, node_id, packet) ==
    IF packet.header.dest = Broadcast
    THEN reliable_send(handle_received(s, node_id, packet), node_id, packet)
    ELSE send_local_to_node(s, node_id, packet)

\* Meshtastic::should_filter_received: the simulation after the call, and
\* the answer in filtered
should_filter_received(s, node_id, packet) ==
    LET header == packet.header
        key == global_id(packet)
        is_repeated == header.hop_start > 0 /\ header.hop_start = header.hop_limit
        \* seen before: after cancel_sending
        repeated(s4) ==
            IF ~is_repeated THEN s4
            ELSE IF rebroadcasts(node_id, packet)
            THEN perhaps_rebroadcast(s4, node_id, packet)
            ELSE IF is_to_node(header.dest, node_id) /\ header.want_ack
            THEN send_ack_nak(s4, node_id, "NotError", header.sender,
                              header.packet_id, 0)
            ELSE s4
        \* Flooding Router: after was_seen_recently
        flooding(s3, was_seen) ==
            IF was_seen
            THEN [s |-> repeated(cancel_sending(s3, node_id, key)),
                  filtered |-> TRUE]
            ELSE [s |-> s3, filtered |-> FALSE]
        \* Reliable Router: every pending packet waits for this one
        reliable(s1) ==
            flooding(
                was_seen_recently(
                    pending_later(s1, node_id, DOMAIN s1.nodes[node_id].pending,
                                  packet),
                    node_id, packet),
                key \in s1.nodes[node_id].seen_recently)
    IN  reliable(
            IF header.sender = node_id /\ key \in DOMAIN s.nodes[node_id].pending
            THEN stop_retransmission(
                     send_ack_nak(s, node_id, "NotError", header.sender,
                                  header.packet_id, 0),
                     node_id, key)
            ELSE s)

\* Meshtastic::perhaps_handle_received; history: the call is recorded in
\* budget.routed
perhaps_handle_received(s, node_id, packet) ==
    LET handled(checked) ==
            IF checked.filtered THEN checked.s
            ELSE handle_received(checked.s, node_id, packet)
    IN  handled(should_filter_received(
                    [s EXCEPT !.budget.routed =
                         Append(@, [node_id |-> node_id, packet |-> packet])],
                    node_id, packet))

\* the loop of Meshtastic::do_retransmissions over the pending map, taken in
\* this order
RECURSIVE pending_iter_mut(_, _, _)
pending_iter_mut(acc, node_id, order) ==
    IF order = <<>> THEN acc
    ELSE LET key == Head(order)
             now == acc.s.sim_time
             packet == acc.s.nodes[node_id].pending[key]
             due == packet.next_tx <= now
             still_valid(s1) ==
                 pending_iter_mut(
                     [acc EXCEPT
                        !.s = s1,
                        !.send_packets = IF due THEN Append(@, packet.packet) ELSE @,
                        !.delay = Min(@, s1.nodes[node_id].pending[key].next_tx - now)],
                     node_id, Tail(order))
         IN  IF due /\ packet.num_retransmissions = 0
             THEN pending_iter_mut([acc EXCEPT !.stop_keys = Append(@, key)],
                                   node_id, Tail(order))
             ELSE still_valid(
                      IF due
                      THEN set_next_tx_for_pending(
                               [acc.s EXCEPT !.nodes[node_id].pending[key]
                                                 .num_retransmissions = @ - 1],
                               node_id, key)
                      ELSE acc.s)

RECURSIVE flood_send_all(_, _, _)
flood_send_all(s, node_id, send_packets) ==
    IF send_packets = <<>> THEN s
    ELSE flood_send_all(flood_send(s, node_id, Head(send_packets)), node_id,
                        Tail(send_packets))

RECURSIVE stop_all(_, _, _)
stop_all(s, node_id, stop_keys) ==
    IF stop_keys = <<>> THEN s
    ELSE LET key == Head(stop_keys)
             packet == s.nodes[node_id].pending[key].packet
         IN  stop_all(
                 stop_retransmission(
                     send_ack_nak(s, node_id, "MaxRetransmit", packet.header.sender,
                                  packet.header.packet_id, 0),
                     node_id, key),
                 node_id, Tail(stop_keys))

\* Meshtastic::do_retransmissions, the pending map iterated in this order:
\* the simulation after the call, and the delay returned
do_retransmissions(s, node_id, order) ==
    LET sent(scanned) ==
            [s |-> stop_all(flood_send_all(scanned.s, node_id, scanned.send_packets),
                            node_id, scanned.stop_keys),
             delay |-> scanned.delay]
    IN  sent(pending_iter_mut(
                 [s |-> s, delay |-> NO_DELAY, send_packets |-> <<>>,
                  stop_keys |-> <<>>],
                 node_id, order))

\* a faulty run_routing_thread: an if in place of the while, one packet of
\* from_radio_queue per run
handle_from_radio_once(s, node_id) == IF s.nodes[node_id].from_radio_queue = <<>> THEN s ELSE perhaps_handle_received([s EXCEPT !.nodes[node_id].from_radio_queue = Tail(@)], node_id, Head(s.nodes[node_id].from_radio_queue))

\* the loop of run_routing_thread over from_radio_queue
RECURSIVE handle_from_radio(_, _)
handle_from_radio(s, node_id) ==
    LET queue == s.nodes[node_id].from_radio_queue
    IN  IF queue = <<>> THEN s
        ELSE handle_from_radio(
                 perhaps_handle_received(
                     [s EXCEPT !.nodes[node_id].from_radio_queue = Tail(@)],
                     node_id, Head(queue)),
                 node_id)

\* a faulty run_routing_thread: the thread is not scheduled again after the run
run_routing_thread_asleep(s, node_id, order) == handle_from_radio(do_retransmissions(s, node_id, order).s, node_id)

\* Meshtastic::run_routing_thread
run_routing_thread(s, node_id, order) ==
    LET notified(s1, delay) ==
            IF delay < NO_DELAY
            THEN notify_later(s1, node_id, delay, "Routing", "RoutingThread", TRUE)
            ELSE s1
        received(retransmitted) ==
            notified(handle_from_radio(retransmitted.s, node_id),
                     retransmitted.delay)
    IN  received(do_retransmissions(s, node_id, order))

\* the orders in which a HashMap with these keys can be iterated
IterationOrders(keys) ==
    {order \in [1 .. Cardinality(keys) -> keys] :
        \A i, j \in DOMAIN order : i # j => order[i] # order[j]}

\* Meshtastic::initalisation
meshtastic_initalisation(s, node_id) ==
    register_thread(register_thread(s, node_id, "RadioThread"),
                    node_id, "RoutingThread")

\* Meshtastic::receive_message
meshtastic_receive_message(s, node_id, header, message_content, payload_size, snr) ==
    notify_later(
        [s EXCEPT !.nodes[node_id].from_radio_queue =
            Append(@, [header |-> header, message_content |-> message_content,
                       size |-> payload_size, snr |-> <<snr>>])],
        node_id, MILLIS, "Routing", "RoutingThread", TRUE)

\* Meshtastic::generate_message
meshtastic_generate_message(s, node_id, message_content, message_info) ==
    LET packet ==
            [header |-> [dest |-> std_destination(message_info),
                         sender |-> node_id,
                         packet_id |-> s.nodes[node_id].next_packet_id,
                         hop_limit |-> DEFAULT_HOP_LIMIT,
                         hop_start |-> DEFAULT_HOP_LIMIT, want_ack |-> TRUE],
             message_content |-> message_content,
             size |-> message_info.size, snr |-> <<>>]
    IN  log(send_local([s EXCEPT !.nodes[node_id].next_packet_id = @ + 1],
                       node_id, packet),
            node_id, <<"send_local called for generated message">>)

\* Meshtastic::get_notified, for every order the pending map can be iterated in
meshtastic_get_notified(s, node_id, notification, thread) ==
    LET routing(s1) ==
            IF notification = "Routing"
            THEN {run_routing_thread(s1, node_id, order) :
                      order \in IterationOrders(DOMAIN s1.nodes[node_id].pending)}
            ELSE {s1}
    IN  routing(on_get_notified(s, node_id, notification))

(***************************************************************************)
(* The node model AcknowledgedOrRepeatFlood (node/ack_repeat_flood.rs).    *)
(* rebroadcasts is the VecDeque, its front first.                          *)
(***************************************************************************)

\* AcknowledgedOrRepeatFlood::new
AcknowledgedOrRepeatFloodNew ==
    [model |-> "AcknowledgedOrRepeatFlood", tx_queue |-> <<>>,
     rebroadcasts |-> <<>>, acknowledgements |-> {}, next_packet_id |-> 0]

\* a faulty set_routing_delay: a delay between 0 s and 20 s
set_routing_delay_soon(s, node_id) ==
    notify_later(rng_drawn(s), node_id, rng_seconds(s, 0, 20), "Routing",
                 "RoutingThread", TRUE)

\* AcknowledgedOrRepeatFlood::set_routing_delay
set_routing_delay(s, node_id) ==
    notify_later(rng_drawn(s), node_id, rng_seconds(s, 1, 20), "Routing",
                 "RoutingThread", TRUE)

\* AcknowledgedOrRepeatFlood::acknowledge
acknowledge(s, node_id, key) ==
    log([s EXCEPT !.nodes[node_id].acknowledgements = @ \cup {key}],
        node_id, <<"added to acknowledgements", key>>)

\* AcknowledgedOrRepeatFlood::remove_from_rebroadcasts: the simulation after
\* the call, and the answer in was_removed
remove_from_rebroadcasts(s, node_id, key) ==
    LET rebroadcasts_queue == s.nodes[node_id].rebroadcasts
        found == {i \in DOMAIN rebroadcasts_queue :
                     global_id(rebroadcasts_queue[i].packet) = key}
        index == CHOOSE i \in found : \A j \in found : i <= j
    IN  IF found = {} THEN [s |-> s, was_removed |-> FALSE]
        ELSE [s |-> log(cancel_sending(
                            [s EXCEPT !.nodes[node_id].rebroadcasts =
                                SubSeq(@, 1, index - 1)
                                    \o SubSeq(@, index + 1, Len(@))],
                            node_id, key),
                        node_id,
                        <<"was removed from rebroadcasts and sending cancelled", key>>),
              was_removed |-> TRUE]

\* a faulty add_to_rebroadcasts: one rebroadcast more
add_to_rebroadcasts_more(s, node_id, packet) ==
    [log(s, node_id, <<"added to rebroadcast queue", global_id(packet)>>)
        EXCEPT !.nodes[node_id].rebroadcasts =
                   <<[packet |-> packet, count |-> MAX_REBROADCASTS + 1]>> \o @]

\* AcknowledgedOrRepeatFlood::add_to_rebroadcasts
add_to_rebroadcasts(s, node_id, packet) ==
    [log(s, node_id, <<"added to rebroadcast queue", global_id(packet)>>)
        EXCEPT !.nodes[node_id].rebroadcasts =
                   <<[packet |-> packet, count |-> MAX_REBROADCASTS]>> \o @]

\* AcknowledgedOrRepeatFlood::handle_dequeued_packet
handle_dequeued_packet(s, node_id, packet, count) ==
    LET sent(s1) ==
            IF packet.message_content.type = "GeneratedMessage" /\ count > 0
            THEN [s1 EXCEPT !.nodes[node_id].rebroadcasts =
                     Append(@, [packet |-> packet, count |-> count - 1])]
            ELSE IF packet.message_content.type \in {"GeneratedMessage", "NodeMessage"}
            THEN acknowledge(s1, node_id, global_id(packet))
            ELSE s1
    IN  sent(send(s, node_id, packet))

\* AcknowledgedOrRepeatFlood::run_routing_thread
arf_run_routing_thread(s, node_id) ==
    LET rebroadcasts_queue == s.nodes[node_id].rebroadcasts
    IN  set_routing_delay(
            IF rebroadcasts_queue = <<>> THEN s
            ELSE handle_dequeued_packet(
                     [s EXCEPT !.nodes[node_id].rebroadcasts = Tail(@)],
                     node_id, Head(rebroadcasts_queue).packet,
                     Head(rebroadcasts_queue).count),
            node_id)

\* AcknowledgedOrRepeatFlood::initalisation
arf_initalisation(s, node_id) ==
    set_routing_delay(
        register_thread(register_thread(s, node_id, "RadioThread"),
                        node_id, "RoutingThread"),
        node_id)

\* AcknowledgedOrRepeatFlood::receive_message
arf_receive_message(s, node_id, header, message_content, payload_size, snr) ==
    LET packet == [header |-> header, message_content |-> message_content,
                   size |-> payload_size, snr |-> <<snr>>]
        key == global_id(packet)
        ack_packet ==
            [header |-> basic_header(node_id, s.nodes[node_id].next_packet_id,
                                     Broadcast),
             message_content |-> [type |-> "NodeMessage", id |-> key],
             size |-> 0, snr |-> <<>>]
        \* the packet is for this node: a GlobalAck is sent
        to_node(s1) ==
            acknowledge(send(s1, node_id, ack_packet), node_id, key)
        \* after the packet's own key was looked for in rebroadcasts
        looked(removed) ==
            IF removed.was_removed THEN acknowledge(removed.s, node_id, key)
            ELSE add_to_rebroadcasts(removed.s, node_id, packet)
        \* a GlobalAck acknowledges the id it carries
        global_ack(removed) ==
            acknowledge(removed.s, node_id, message_content.id)
    IN  IF is_to_node(header.dest, node_id)
        THEN to_node(acknowledge(
                 [s EXCEPT !.nodes[node_id].next_packet_id = @ + 1],
                 node_id, global_id(ack_packet)))
        ELSE IF key \in s.nodes[node_id].acknowledgements THEN s
        ELSE looked(remove_from_rebroadcasts(
                 IF message_content.type = "NodeMessage"
                 THEN global_ack(remove_from_rebroadcasts(s, node_id,
                                                          message_content.id))
                 ELSE s,
                 node_id, key))

\* AcknowledgedOrRepeatFlood::generate_message
arf_generate_message(s, node_id, message_content, message_info) ==
    add_to_rebroadcasts(
        [s EXCEPT !.nodes[node_id].next_packet_id = @ + 1], node_id,
        [header |-> basic_header(node_id, s.nodes[node_id].next_packet_id,
                                 std_destination(message_info)),
         message_content |-> message_content, size |-> message_info.size,
         snr |-> <<>>])

\* AcknowledgedOrRepeatFlood::get_notified
arf_get_notified(s, node_id, notification, thread) ==
    LET routing(s1) ==
            IF notification = "Routing" THEN arf_run_routing_thread(s1, node_id)
            ELSE s1
    IN  routing(on_get_notified(s, node_id, notification))

(***************************************************************************)
(* The node model SimpleManagedFlooding (node/simple_managed_flooding.rs). *)
(***************************************************************************)

\* SimpleManagedFlooding::new
SimpleManagedFloodingNew ==
    [model |-> "SimpleManagedFlooding", tx_queue |-> <<>>, seen |-> {},
     sent |-> {}, next_packet_id |-> 0]

\* a faulty receive_message: the sent set is not looked at
smf_receive_message_again(s, node_id, header, message_content, payload_size, snr) ==
    LET packet == [header |-> header, message_content |-> message_content,
                   size |-> payload_size, snr |-> <<snr>>]
    IN  IF is_to_node(header.dest, node_id) THEN s
        ELSE send(s, node_id, packet)

\* SimpleManagedFlooding::receive_message
smf_receive_message(s, node_id, header, message_content, payload_size, snr) ==
    LET packet == [header |-> header, message_content |-> message_content,
                   size |-> payload_size, snr |-> <<snr>>]
        key == global_id(packet)
        enqueued ==
            IF ~is_to_node(header.dest, node_id) /\ key \notin s.nodes[node_id].sent
            THEN send([log(s, node_id, <<"Enqueuing rebroadcast for", key>>)
                          EXCEPT !.nodes[node_id].sent = @ \cup {key}],
                      node_id, packet)
            ELSE s
    IN  IF key \in s.nodes[node_id].seen THEN cancel_sending(s, node_id, key)
        ELSE [enqueued EXCEPT !.nodes[node_id].seen = @ \cup {key}]

\* SimpleManagedFlooding::generate_message
smf_generate_message(s, node_id, message_content, message_info) ==
    LET packet ==
            [header |-> basic_header(node_id, s.nodes[node_id].next_packet_id,
                                     std_destination(message_info)),
             message_content |-> message_content, size |-> message_info.size,
             snr |-> <<>>]
        key == global_id(packet)
        enqueued ==
            send(log([s EXCEPT !.nodes[node_id].next_packet_id = @ + 1], node_id,
                     <<"generated and enqueued as packet", message_content, key>>),
                 node_id, packet)
    IN  [enqueued EXCEPT !.nodes[node_id].sent = @ \cup {key},
                         !.nodes[node_id].seen = @ \cup {key}]

(***************************************************************************)
(* The node model ProbabilisticFlood (node/probabilistic_flood.rs).        *)
(***************************************************************************)

\* ProbabilisticFlood::new
ProbabilisticFloodNew ==
    [model |-> "ProbabilisticFlood", tx_queue |-> <<>>, seen |-> {},
     next_packet_id |-> 0]

\* node.rs, meshtastic_header
meshtastic_header(sender_id, packet_id, message_info) ==
    [hop_limit |-> 3, dest |-> std_destination(message_info),
     sender |-> sender_id, packet_id |-> packet_id, hop_start |-> 3,
     want_ack |-> TRUE]

\* context.rng(0.0, 1.0) < REBROADCAST_PROB, in hundredths
rng_below(s, hundredths) == s.rng.stream[s.rng.pos + 1] * 100 < hundredths * RngDen

\* a faulty receive_message: the draw is made before the hops are looked at
pf_receive_message_eager(s, node_id, header, message_content, payload_size, snr) ==
    LET packet == [header |-> header, message_content |-> message_content,
                   size |-> payload_size, snr |-> <<snr>>]
        key == global_id(packet)
        keeps == \/ header.hop_start - header.hop_limit < MIN_HOPS
                 \/ rng_below(s, REBROADCAST_PROB)
        s1 == rng_drawn(s)
        decided ==
            IF is_to_node(header.dest, node_id) THEN s
            ELSE IF keeps
            THEN send(log(s1, node_id, <<"Enqueuing rebroadcast for", key>>),
                      node_id, [packet EXCEPT !.header.hop_limit = @ - 1])
            ELSE log(s1, node_id,
                     <<"Probabilistically dropping rebroadcast for", key, node_id>>)
    IN  IF key \in s.nodes[node_id].seen THEN s
        ELSE [decided EXCEPT !.nodes[node_id].seen = @ \cup {key}]

\* ProbabilisticFlood::receive_message
pf_receive_message(s, node_id, header, message_content, payload_size, snr) ==
    LET packet == [header |-> header, message_content |-> message_content,
                   size |-> payload_size, snr |-> <<snr>>]
        key == global_id(packet)
        draws == header.hop_start - header.hop_limit >= MIN_HOPS
        keeps == ~draws \/ rng_below(s, REBROADCAST_PROB)
        s1 == IF draws THEN rng_drawn(s) ELSE s
        decided ==
            IF is_to_node(header.dest, node_id) THEN s
            ELSE IF keeps
            THEN send(log(s1, node_id, <<"Enqueuing rebroadcast for", key>>),
                      node_id, [packet EXCEPT !.header.hop_limit = @ - 1])
            ELSE log(s1, node_id,
                     <<"Probabilistically dropping rebroadcast for", key, node_id>>)
    IN  IF key \in s.nodes[node_id].seen THEN s
        ELSE [decided EXCEPT !.nodes[node_id].seen = @ \cup {key}]

\* ProbabilisticFlood::generate_message
pf_generate_message(s, node_id, message_content, message_info) ==
    LET packet ==
            [header |-> meshtastic_header(node_id, s.nodes[node_id].next_packet_id,
                                          message_info),
             message_content |-> message_content, size |-> message_info.size,
             snr |-> <<>>]
    IN  send(log([s EXCEPT !.nodes[node_id].next_packet_id = @ + 1], node_id,
                 <<"generated and enqueued as packet", message_content,
                   global_id(packet)>>),
             node_id, packet)

\* the node models whose only state machine is the radio interface
FloodModels == {"SimpleManagedFlooding", "ProbabilisticFlood"}

\* initalisation of SimpleManagedFlooding and of ProbabilisticFlood
flood_initalisation(s, node_id) == register_thread(s, node_id, "RadioThread")

\* get_notified of SimpleManagedFlooding and of ProbabilisticFlood
flood_get_notified(s, node_id, notification, thread) ==
    on_get_notified(s, node_id, notification)

(***************************************************************************)
(* NodeModel: the callbacks of the node model a node runs.                 *)
(***************************************************************************)

\* NodeModel::from(ModelSelection), and the model "Any"
NodeModel(model) ==
    IF model = "Meshtastic" THEN MeshtasticNew
    ELSE IF model = "AcknowledgedOrRepeatFlood" THEN AcknowledgedOrRepeatFloodNew
    ELSE IF model = "SimpleManagedFlooding" THEN SimpleManagedFloodingNew
    ELSE IF model = "ProbabilisticFlood" THEN ProbabilisticFloodNew
    ELSE [model |-> model]

\* NodeModel::initalisation
initalisation(s, node_id) ==
    IF s.nodes[node_id].model = "AcknowledgedOrRepeatFlood"
    THEN arf_initalisation(s, node_id)
    ELSE IF s.nodes[node_id].model \in FloodModels
    THEN flood_initalisation(s, node_id)
    ELSE meshtastic_initalisation(s, node_id)

\* NodeModel::generate_message
generate_message(s, node_id, message_content, message_info) ==
    LET called == Called(s, "generate_message",
                         [message_content |-> message_content,
                          message_info |-> message_info])
    IN  IF s.nodes[node_id].model = "Meshtastic"
        THEN {meshtastic_generate_message(called, node_id, message_content,
                                          message_info)}
        ELSE IF s.nodes[node_id].model = "AcknowledgedOrRepeatFlood"
        THEN {arf_generate_message(called, node_id, message_content, message_info)}
        ELSE IF s.nodes[node_id].model = "SimpleManagedFlooding"
        THEN {smf_generate_message(called, node_id, message_content, message_info)}
        ELSE IF s.nodes[node_id].model = "ProbabilisticFlood"
        THEN {pf_generate_message(called, node_id, message_content, message_info)}
        ELSE AnyCalls(called, node_id, message_content)

\* NodeModel::receive_message
receive_message(s, node_id, header, message_content, payload_size, snr) ==
    LET called == Called(s, "receive_message",
                         [header |-> header, message_content |-> message_content,
                          payload_size |-> payload_size, snr |-> snr])
    IN  IF s.nodes[node_id].model = "Meshtastic"
        THEN {meshtastic_receive_message(called, node_id, header, message_content,
                                         payload_size, snr)}
        ELSE IF s.nodes[node_id].model = "AcknowledgedOrRepeatFlood"
        THEN {arf_receive_message(called, node_id, header, message_content,
                                  payload_size, snr)}
        ELSE IF s.nodes[node_id].model = "SimpleManagedFlooding"
        THEN {smf_receive_message(called, node_id, header, message_content,
                                  payload_size, snr)}
        ELSE IF s.nodes[node_id].model = "ProbabilisticFlood"
        THEN {pf_receive_message(called, node_id, header, message_content,
                                 payload_size, snr)}
        ELSE AnyCalls(called, node_id, Empty)

\* NodeModel::get_notified
get_notified(s, node_id, notification, thread) ==
    LET called == Called(s, "get_notified",
                         [notification |-> notification, thread |-> thread,
                          pending |-> s.notify_status[node_id][thread].notification])
    IN  IF s.nodes[node_id].model = "Meshtastic"
        THEN meshtastic_get_notified(called, node_id, notification, thread)
        ELSE IF s.nodes[node_id].model = "AcknowledgedOrRepeatFlood"
        THEN {arf_get_notified(called, node_id, notification, thread)}
        ELSE IF s.nodes[node_id].model \in FloodModels
        THEN {flood_get_notified(called, node_id, notification, thread)}
        ELSE AnyCalls(called, node_id, Empty)

\* the fading samples a dispatch to this node may take: the node models of
\* the repository observe the channel, the model "Any" does not
samples_observed(s, node_id) ==
    IF s.nodes[node_id].model = "Any" THEN {}
    ELSE {s.em_field[i].id : i \in
             {j \in DOMAIN s.em_field :
                 /\ ~IsCached(s.cached_power_at, s.em_field[j].id, node_id)
                 /\ has_distance(s, s.em_field[j].transmitter_id, node_id)}}

(***************************************************************************)
(* Simulation::step, one action per kind of event.                         *)
(***************************************************************************)
Event == HeapTop(event_queue)

\* the state a dispatch starts from: the event popped, the clock advanced
Popped ==
    LET s == [State EXCEPT !.event_queue = HeapPop(@), !.sim_time = Event.time]
    IN  [s EXCEPT !.obs = NewObs(Event, s, sim_time)]

\* a faulty cutoff test: an event due exactly at SIM_END is still dispatched
DispatchingAtCutoff(action) ==
    /\ event_queue # <<>>
    /\ Event.time <= SIM_END
    /\ Event.action = action

Dispatching(action) ==
    /\ event_queue # <<>>
    /\ Event.time < SIM_END
    /\ Event.action = action

\* Simulation::log_content
log_content(s, content) ==
    [s EXCEPT !.logs = Append(@, [time |-> s.sim_time, source |-> -1,
                                  content |-> content])]

\* the transmission a RecieveMessage event refers to: em_field.iter().rev().find
find_transmission(field, transmission_id) ==
    LET at == {i \in DOMAIN field : field[i].id = transmission_id}
    IN  field[CHOOSE i \in at : \A j \in at : j <= i]

\* Simulation::step, SimAction::RecieveMessage
receive_dispatch(s, node_id, transmission_id, draw) ==
    LET this_trans == find_transmission(s.em_field, transmission_id)
        trans_res == reception_at(s, node_id, this_trans, draw)
        s1 == [s EXCEPT !.cached_power_at = trans_res.cache,
                        !.obs.result = trans_res.result,
                        !.budget.received = Append(@,
                            [node_id |-> node_id, transmission_id |-> this_trans.id,
                             result |-> trans_res.result, snr |-> trans_res.snr])]
    IN  IF trans_res.result = "Blocked"
        THEN {log_content(s1, [type |-> "TransmissionBlocked",
                               receiver_id |-> node_id,
                               target_transmission_id |-> this_trans.id,
                               blocking_transmission_id |-> trans_res.blocker_id])}
        ELSE IF trans_res.result = "TooWeak" THEN {s1}
        ELSE {log_content(s2, [type |-> "TransmissionReceived",
                               receiver_id |-> node_id,
                               transmission_id |-> this_trans.id]) :
                  s2 \in receive_message(s1, node_id, this_trans.header,
                             this_trans.message_content,
                             message_size(s1, this_trans.message_content),
                             trans_res.snr)}

\* a faulty MaybeNotify dispatch: fires whatever is pending, whenever it is due
notify_dispatch_any_time(s, node_id, on_thread) ==
    LET status == s.notify_status[node_id][on_thread]
    IN  IF status.notification # None
        THEN get_notified(
                 [s EXCEPT !.notify_status[node_id][on_thread].notification = None,
                           !.budget.fires[node_id][on_thread] = Counted(@)],
                 node_id, status.notification, on_thread)
        ELSE {s}

\* Simulation::step, SimAction::MaybeNotify
notify_dispatch(s, node_id, on_thread) ==
    LET status == s.notify_status[node_id][on_thread]
    IN  IF status.at_time = s.sim_time /\ status.notification # None
        THEN get_notified(
                 [s EXCEPT !.notify_status[node_id][on_thread].notification = None,
                           !.budget.fires[node_id][on_thread] = Counted(@)],
                 node_id, status.notification, on_thread)
        ELSE {s}

StepCutoff ==
    /\ event_queue # <<>>
    /\ Event.time >= SIM_END
    /\ Becomes([Popped EXCEPT !.event_queue = <<>>])

StepGenerateMessage ==
    /\ Dispatching("GenerateMessage")
    /\ \E draw \in [samples_observed(Popped, Event.node_id)
                      -> transmission_model.random_fading] :
       \E s2 \in generate_message([Popped EXCEPT !.draw = draw], Event.node_id,
                                  GeneratedMessage(Event.arg),
                                  test_messages[Event.arg + 1]) :
           Becomes(s2)

StepRecieveMessage ==
    /\ Dispatching("RecieveMessage")
    /\ \E draw \in [samples_needed(Popped, Event.node_id,
                        find_transmission(em_field, Event.arg))
                      -> transmission_model.random_fading] :
       \E s2 \in receive_dispatch(Popped, Event.node_id, Event.arg, draw) :
           Becomes(s2)

StepSendMessage ==
    /\ Dispatching("SendMessage")
    /\ \E s2 \in try_broadcast(Popped, Event.node_id, Event.arg.header,
                               Event.arg.message_content) :
           Becomes(s2)

StepMaybeNotify ==
    /\ Dispatching("MaybeNotify")
    /\ \E draw \in [samples_observed(Popped, Event.node_id)
                      -> transmission_model.random_fading] :
       \E s2 \in notify_dispatch([Popped EXCEPT !.draw = draw], Event.node_id,
                                 Event.arg) :
           Becomes(s2)

(***************************************************************************)
(* Scenarios and initialisation (init_simulation).                         *)
(***************************************************************************)
NodeSetting(sf, carrier_band, reaction_time) ==
    [sf |-> sf, coding_rate |-> 5, carrier_band |-> carrier_band,
     reaction_time |-> reaction_time, max_power |-> 44, use_power |-> 44]

\* the radio settings a scenario may give node n
SettingOptions(n) ==
    IF n = 1
    THEN {NodeSetting(7, "B868", 0), NodeSetting(8, "B868", 25),
          NodeSetting(7, "B433", 0)}
    ELSE {NodeSetting(7, "B868", 0)}

\* Points::get_adj: every other node
Points == [kind |-> "Points", adj |-> [n \in Nodes |-> Nodes \ {n}]]

\* a Graph: nodes 0, 1 and 2 joined to each other, every further node joined
\* to the node before it
TriangleWithTail ==
    [kind |-> "Graph",
     adj |-> [n \in Nodes |->
                {m \in Nodes \ {n} : (m <= 2 /\ n <= 2) \/ m = n + 1 \/ n = m + 1}]]

\* a Graph: every node joined to the node before it and the node after it
Line ==
    [kind |-> "Graph",
     adj |-> [n \in Nodes |-> {m \in Nodes : m = n + 1 \/ n = m + 1}]]

ScenarioMessage(sender, targets, generate_time, num_generations) ==
    [sender |-> sender, targets |-> targets, generate_time |-> generate_time,
     size |-> 20, num_generations |-> num_generations,
     generation_spacing |-> MILLIS]

\* the user messages of a scenario; a message generated at the cutoff is
\* generated again after it
Scenarios ==
    {<<ScenarioMessage(0, {1}, 0, 2),
       ScenarioMessage(1, Nodes \ {1}, t, IF t = SIM_END THEN 2 ELSE 1)>> :
         t \in {MILLIS, SIM_END}}

RECURSIVE PushGenerations(_, _, _, _)
PushGenerations(queue, message, message_id, generation) ==
    IF generation >= message.num_generations THEN queue
    ELSE PushGenerations(
             HeapPush(queue,
                 [time |-> message.generate_time
                               + message.generation_spacing * generation,
                  action |-> "GenerateMessage", node_id |-> message.sender,
                  arg |-> message_id]),
             message, message_id, generation + 1)

\* Simulation::enqueue_message_generation: the event queue it builds
RECURSIVE enqueue_message_generation(_, _, _)
enqueue_message_generation(queue, messages, message_id) ==
    IF messages = <<>> THEN queue
    ELSE enqueue_message_generation(
             PushGenerations(queue, Head(messages), message_id, 0),
             Tail(messages), message_id + 1)

\* Simulation::initalise_nodes
RECURSIVE initalise_nodes(_, _)
initalise_nodes(s, node_id) ==
    IF node_id >= NumNodes THEN s
    ELSE initalise_nodes(initalisation(s, node_id), node_id + 1)

\* init_simulation; the history of a dispatch starts empty
\* (0..graph_len).map(|_| value).collect(): a Vec holding value for each node
RECURSIVE PerNode(_, _)
PerNode(node_ids, value) ==
    IF node_ids = {} THEN <<>>
    ELSE LET n == CHOOSE x \in node_ids : TRUE
         IN  (n :> value) @@ PerNode(node_ids \ {n}, value)

init_simulation(settings, topology, fading, messages, model, seed) ==
    [initalise_nodes(
        [sim_time |-> 0,
         event_queue |-> enqueue_message_generation(<<>>, messages, 0),
         em_field |-> <<>>,
         next_trans_id |-> 0,
         notify_status |-> PerNode(Nodes,
                               [RadioThread |-> [notification |-> None, at_time |-> 0],
                                RoutingThread |-> [notification |-> None, at_time |-> 0]]),
         logs |-> <<>>,
         cached_power_at |-> <<>>,
         transmission_model |-> [random_fading |-> fading],
         node_settings |-> settings,
         graph |-> topology,
         test_messages |-> [i \in DOMAIN messages |->
                               [size |-> messages[i].size,
                                targets |-> messages[i].targets]],
         do_node_logs |-> TRUE,
         nodes |-> PerNode(Nodes, NodeModel(model)),
         rng |-> seed_from_u64(seed),
         runs |-> [run |-> 1, input |-> <<>>, first |-> <<>>],
         budget |-> [sends |-> 0, notifies |-> 0, received |-> <<>>,
                     zero_delays |-> 0, floods |-> <<>>, routed |-> <<>>,
                     handed |-> <<>>,
                     sets |-> PerNode(Nodes, [RadioThread |-> 0, RoutingThread |-> 0]),
                     fires |-> PerNode(Nodes, [RadioThread |-> 0, RoutingThread |-> 0])],
         obs |-> [action |-> "Init", node_id |-> 0, arg |-> 0, time |-> 0,
                  prev_time |-> 0, busy |-> FALSE, result |-> None,
                  calls |-> <<>>, nl |-> <<>>, panicked |-> FALSE,
                  pre |-> <<>>],
         draw |-> <<>>],
        0) EXCEPT !.obs.nl = <<>>]

StartsAs(s) ==
    /\ sim_time = s.sim_time
    /\ event_queue = s.event_queue
    /\ em_field = s.em_field
    /\ next_trans_id = s.next_trans_id
    /\ notify_status = s.notify_status
    /\ logs = s.logs
    /\ cached_power_at = s.cached_power_at
    /\ transmission_model = s.transmission_model
    /\ node_settings = s.node_settings
    /\ graph = s.graph
    /\ test_messages = s.test_messages
    /\ do_node_logs = s.do_node_logs
    /\ nodes = s.nodes
    /\ rng = s.rng
    /\ runs = s.runs
    /\ budget = s.budget
    /\ obs = s.obs

\* run_simulation: the simulation it builds from its input
run_simulation(input) ==
    [init_simulation(input.settings, input.topology, input.fading,
                     input.messages, input.model, input.seed)
        EXCEPT !.runs.input = input]

Init ==
    \E settings \in [Nodes -> UNION {SettingOptions(n) : n \in Nodes}] :
    \E messages \in Scenarios :
        /\ \A n \in Nodes : settings[n] \in SettingOptions(n)
        /\ StartsAs(run_simulation(
               [settings |-> settings, topology |-> TriangleWithTail,
                fading |-> WeakOrStrong, messages |-> messages,
                model |-> "Any", seed |-> 0]))

Next ==
    \/ StepCutoff
    \/ StepGenerateMessage
    \/ StepRecieveMessage
    \/ StepSendMessage
    \/ StepMaybeNotify

Spec == Init /\ [][Next]_vars

(***************************************************************************)
(* Properties of the kernel.                                               *)
(***************************************************************************)
Field == {em_field[i] : i \in DOMAIN em_field}

ReceivedAt(receiver_id, x) ==
    \E i \in DOMAIN logs :
        /\ logs[i].content.type = "TransmissionReceived"
        /\ logs[i].content.receiver_id = receiver_id
        /\ logs[i].content.transmission_id = x.id

\* the sender of the SendMessage just dispatched was transmitting
SenderWasBusy ==
    /\ obs.action = "SendMessage"
    /\ \E i \in DOMAIN obs.pre.em_field :
           /\ obs.pre.em_field[i].transmitter_id = obs.node_id
           /\ obs.pre.em_field[i].end_time >= sim_time

\* C1: no two distinct transmissions of the EM field by the same transmitter
\* overlap in time, and a SendMessage dispatched while its sender has a
\* transmission with end_time >= sim_time creates no transmission.
C1_NoOverlappingTransmission ==
    /\ \A a, b \in Field :
           (a.id # b.id /\ a.transmitter_id = b.transmitter_id) => ~overlaps(a, b)
    /\ SenderWasBusy => em_field = obs.pre.em_field

C1_Witness ==
    /\ SenderWasBusy
    /\ Len(em_field) >= 2
    /\ \E a, b \in Field : a.id # b.id /\ overlaps(a, b)

\* C2: no receiver has TransmissionReceived entries for two distinct
\* transmissions that overlap in time.
C2_NoOverlappingReception ==
    \A n \in Nodes : \A a, b \in Field :
        (a.id # b.id /\ ReceivedAt(n, a) /\ ReceivedAt(n, b)) => ~overlaps(a, b)

\* the transmission the RecieveMessage just dispatched decided on
Target == find_transmission(obs.pre.em_field, obs.arg)

\* the receiving node has a transmission of its own since the target started
OwnSinceTargetStart ==
    \E i \in DOMAIN obs.pre.em_field :
        /\ obs.pre.em_field[i].transmitter_id = obs.node_id
        /\ obs.pre.em_field[i].id # Target.id
        /\ obs.pre.em_field[i].end_time >= Target.start_time

\* C3: no node has a TransmissionReceived entry for a transmission X while
\* it is the transmitter of a distinct transmission that overlaps X, and a
\* RecieveMessage dispatched at a node that has a transmission of its own
\* with end_time >= X.start_time ends Blocked or TooWeak, never Success.
C3_NoTransmissionAndReception ==
    /\ \A x, y \in Field :
           (x.id # y.id /\ ReceivedAt(y.transmitter_id, x)) => ~overlaps(x, y)
    /\ (obs.action = "RecieveMessage" /\ OwnSinceTargetStart)
           => obs.result \in {"Blocked", "TooWeak"}

C3_Witness ==
    /\ obs.action = "RecieveMessage"
    /\ OwnSinceTargetStart
    /\ obs.result = "Blocked"
    /\ \E y \in Field :
           /\ y.transmitter_id = obs.node_id
           /\ y.id = logs[Len(logs)].content.blocking_transmission_id
           /\ overlaps(Target, y)
           /\ y.end_time < sim_time

\* em_field is pre with one transmission inserted somewhere
InsertedOne(pre, post) ==
    /\ Len(post) = Len(pre) + 1
    /\ \E p \in DOMAIN post :
           /\ SubSeq(post, 1, p - 1) = SubSeq(pre, 1, p - 1)
           /\ SubSeq(post, p + 1, Len(post)) = SubSeq(pre, p, Len(pre))

\* C4: the EM field is sorted by end_time ascending, and a SendMessage
\* dispatch keeps every earlier entry, in the same order.
C4_FieldSorted ==
    /\ \A i, j \in DOMAIN em_field :
           i < j => em_field[i].end_time <= em_field[j].end_time
    /\ obs.action = "SendMessage" =>
           \/ em_field = obs.pre.em_field
           \/ InsertedOne(obs.pre.em_field, em_field)
    /\ obs.action \notin {"SendMessage", "Init"} => em_field = obs.pre.em_field

\* a transmission that started later than another was inserted before it
C4_Witness ==
    /\ obs.action = "SendMessage"
    /\ Len(em_field) = Len(obs.pre.em_field) + 1
    /\ \E i, j \in DOMAIN em_field :
           /\ i < j
           /\ em_field[i].start_time > em_field[j].start_time
           /\ em_field[i].end_time < em_field[j].end_time
           /\ em_field[i].id = obs.pre.next_trans_id

(***************************************************************************)
(* The event queue on its own: pushes of events due now or later, as the   *)
(* Context and try_broadcast make them, interleaved with the pops of step. *)
(* The events are GenerateMessage events numbered in push order.           *)
(***************************************************************************)
QueueInit ==
    StartsAs([init_simulation([n \in Nodes |-> NodeSetting(7, "B868", 0)],
                              TriangleWithTail, WeakOrStrong, <<>>, "Any", 0)
                 EXCEPT !.obs = [action |-> "Init", pushed |-> 0, popped |-> <<>>]])

\* EventQueue::push of the next event, due at time
QueuePush(time) ==
    /\ obs.pushed < MaxQueue
    /\ Becomes([State EXCEPT
           !.event_queue = HeapPush(@, [time |-> time, action |-> "GenerateMessage",
                                        node_id |-> 0, arg |-> obs.pushed]),
           !.obs = [action |-> "Push", pushed |-> obs.pushed + 1,
                    popped |-> obs.popped]])

QueuePushNow == QueuePush(sim_time)

QueuePushLater == QueuePush(sim_time + MILLIS)

\* Simulation::step up to the dispatch: pop the top event, advance the clock
QueuePop ==
    /\ event_queue # <<>>
    /\ Becomes([State EXCEPT
           !.event_queue = HeapPop(@),
           !.sim_time = Event.time,
           !.obs = [action |-> "Pop", pushed |-> obs.pushed, popped |-> Event]])

QueueNext == QueuePushNow \/ QueuePushLater \/ QueuePop

SpecQueue == QueueInit /\ [][QueueNext]_vars

\* C5: events with equal timestamps are dispatched in the order they were
\* pushed: an event just popped was pushed before every event of the same
\* time that is still in the queue.
C5_FifoOnTies ==
    obs.action = "Pop" =>
        \A i \in DOMAIN event_queue :
            event_queue[i].time = obs.popped.time
                => obs.popped.arg < event_queue[i].arg

\* C6: sim_time never decreases from one step to the next, and every event
\* in the queue, so every event a dispatch pushed, has a time >= sim_time.
C6_TimeMonotone ==
    /\ obs.action # "Init" => (sim_time = obs.time /\ sim_time >= obs.prev_time)
    /\ \A i \in DOMAIN event_queue : event_queue[i].time >= sim_time

\* a dispatch later than the one before it pushed an event due at once
C6_Witness ==
    /\ obs.action = "GenerateMessage"
    /\ sim_time > obs.prev_time
    /\ Len(event_queue) = Len(obs.pre.event_queue) + 1
    /\ \E i \in DOMAIN event_queue :
           event_queue[i].action = "SendMessage" /\ event_queue[i].time = sim_time
    /\ \E i \in DOMAIN event_queue : event_queue[i].time > sim_time

\* C8: a SendMessage dispatched while its sender is transmitting calls
\* handle_error with RadioBusyError carrying the event's header and content,
\* allocates no transmission id, leaves the EM field and the event queue as
\* they were and logs no TransmissionSent entry.
C8_RadioBusyFrame ==
    SenderWasBusy =>
        /\ obs.calls = <<[name |-> "handle_error",
                          args |-> [error |-> "RadioBusyError",
                                    header |-> obs.arg.header,
                                    message_content |-> obs.arg.message_content]]>>
        /\ next_trans_id = obs.pre.next_trans_id
        /\ em_field = obs.pre.em_field
        /\ event_queue = obs.pre.event_queue
        /\ SubSeq(logs, 1, Len(obs.pre.logs)) = obs.pre.logs
        /\ \A i \in (Len(obs.pre.logs) + 1) .. Len(logs) :
               logs[i].content.type = "Text"

C8_Witness ==
    /\ SenderWasBusy
    /\ WasCalled("handle_error")
    /\ event_queue # <<>>
    /\ Len(logs) > Len(obs.pre.logs)

SameEvent(a, b) ==
    /\ a.action = b.action
    /\ a.time = b.time
    /\ a.node_id = b.node_id
    /\ a.arg = b.arg

Count(queue, e) == Cardinality({i \in DOMAIN queue : SameEvent(queue[i], e)})

\* post holds the events of pre and one more event e
PushedOne(pre, post, e) ==
    /\ Len(post) = Len(pre) + 1
    /\ \E i \in DOMAIN post : SameEvent(post[i], e)
    /\ \A i \in DOMAIN post :
           Count(post, post[i])
               = Count(pre, post[i]) + (IF SameEvent(post[i], e) THEN 1 ELSE 0)

\* the condition the specification gives for notify_later to act
NoLiveNotification(r) ==
    LET status == r.pre_status[r.node_id][r.thread]
    IN  \/ status.notification = None
        \/ status.at_time < r.now
        \/ r.should_override

\* C9: a notify_later call sets the (node, thread) notification and pushes
\* one MaybeNotify event at now + delay exactly when the thread has no
\* pending notification, or its at_time is earlier than sim_time, or
\* should_override is true; otherwise the table and the queue are unchanged.
C9_NotifyLater ==
    \A i \in DOMAIN obs.nl :
        LET r == obs.nl[i] IN
        IF NoLiveNotification(r)
        THEN /\ r.post_status =
                    [r.pre_status EXCEPT ![r.node_id][r.thread] =
                        [notification |-> r.notif, at_time |-> r.now + r.delay]]
             /\ PushedOne(r.pre_queue, r.post_queue,
                          [time |-> r.now + r.delay, action |-> "MaybeNotify",
                           node_id |-> r.node_id, arg |-> r.thread])
        ELSE /\ r.post_status = r.pre_status
             /\ r.post_queue = r.pre_queue

\* a call without override found a notification pending and due now or later
C9_Witness ==
    \E i \in DOMAIN obs.nl :
        /\ ~NoLiveNotification(obs.nl[i])
        /\ obs.nl[i].pre_status[obs.nl[i].node_id][obs.nl[i].thread].at_time
               = obs.nl[i].now
        /\ obs.nl[i].post_queue = event_queue

\* the notification entry the MaybeNotify just dispatched found
FoundStatus == obs.pre.notify_status[obs.node_id][obs.arg]

\* C10: a MaybeNotify event calls get_notified only if the table's at_time
\* equals the event's time and a notification is pending, the entry is cleared
\* when get_notified runs, no other dispatch calls get_notified, and for each
\* (node, thread) the get_notified calls never outnumber the notify_later
\* calls that set the table.
C10_MaybeNotify ==
    /\ WasCalled("get_notified") =>
           /\ obs.action = "MaybeNotify"
           /\ FoundStatus.at_time = obs.time
           /\ FoundStatus.notification # None
           /\ obs.calls[1].args.notification = FoundStatus.notification
           /\ obs.calls[1].args.pending = None
    /\ \A n \in Nodes : \A th \in NodeThread :
           budget.fires[n][th] <= budget.sets[n][th]

\* a MaybeNotify whose notification was superseded by one for another time
C10_Witness ==
    /\ obs.action = "MaybeNotify"
    /\ FoundStatus.notification # None
    /\ FoundStatus.at_time # obs.time
    /\ ~WasCalled("get_notified")
    /\ budget.fires[obs.node_id][obs.arg] < budget.sets[obs.node_id][obs.arg]

(***************************************************************************)
(* Two runs of run_simulation with the same scenario, model and seed, for  *)
(* the node model Meshtastic.                                              *)
(***************************************************************************)
Seeds == {0, 1}

\* A user message of node 0 to node 1 generated twice, the second time
\* spacing after the first, and a message generated at the cutoff
MeshScenarios ==
    {<<[ScenarioMessage(0, {1}, 0, 2) EXCEPT !.generation_spacing = spacing],
       ScenarioMessage(1, Nodes \ {1}, SIM_END, 1)>> :
         spacing \in {MILLIS,
                      calculate_air_time(20, NodeSetting(7, "B868", 0))}}

InitMesh ==
    \E seed \in Seeds : \E fading \in {Weak, Strong} :
    \E messages \in MeshScenarios :
        StartsAs(run_simulation(
            [settings |-> [n \in Nodes |-> NodeSetting(7, "B868", 0)],
             topology |-> TriangleWithTail, fading |-> fading,
             messages |-> messages, model |-> "Meshtastic", seed |-> seed]))

\* the first run has finished: its output is kept and run_simulation is
\* called again with the same input
RunAgain ==
    /\ event_queue = <<>>
    /\ runs.run = 1
    /\ Becomes([run_simulation(runs.input) EXCEPT
           !.runs.run = 2,
           !.runs.first = [logs |-> logs, em_field |-> em_field]])

NextMesh ==
    \/ StepCutoff
    \/ StepGenerateMessage
    \/ StepRecieveMessage
    \/ StepSendMessage
    \/ StepMaybeNotify
    \/ RunAgain

SpecMesh == InitMesh /\ [][NextMesh]_vars

\* C7: two runs of run_simulation with the same scenario, the same node
\* model and the same seed produce the same output: when the second run has
\* finished, its log sequence and its EM field are those of the first run.
C7_Deterministic ==
    (runs.run = 2 /\ event_queue = <<>>)
        => (logs = runs.first.logs /\ em_field = runs.first.em_field)

(***************************************************************************)
(* Properties of the log against the EM field.                             *)
(***************************************************************************)
SentEntries == {i \in DOMAIN logs : logs[i].content.type = "TransmissionSent"}

\* the log entry try_broadcast writes for transmission x
SentEntry(x) ==
    [time |-> x.start_time, source |-> -1,
     content |-> [type |-> "TransmissionSent", sender_id |-> x.transmitter_id,
                  transmission_id |-> x.id]]

\* C11: the TransmissionSent entries and the EM field entries correspond one
\* to one by transmission id, the ids are 0, 1, 2, ... in dispatch order, and
\* a SendMessage dispatched while its sender is not transmitting takes the
\* next id, inserts one transmission with that id, the sender and start_time
\* = sim_time, and appends its TransmissionSent entry; no other dispatch
\* takes an id.
C11_SentMatchesField ==
    /\ Len(em_field) = next_trans_id
    /\ Cardinality(SentEntries) = next_trans_id
    /\ \A id \in 0 .. (next_trans_id - 1) :
           /\ Cardinality({i \in DOMAIN em_field : em_field[i].id = id}) = 1
           /\ Cardinality({i \in SentEntries :
                   logs[i].content.transmission_id = id}) = 1
    /\ \A x \in Field : \E i \in SentEntries : logs[i] = SentEntry(x)
    /\ \A i, j \in SentEntries :
           i < j => logs[i].content.transmission_id < logs[j].content.transmission_id
    /\ IF obs.action = "SendMessage" /\ ~SenderWasBusy
       THEN /\ next_trans_id = obs.pre.next_trans_id + 1
            /\ InsertedOne(obs.pre.em_field, em_field)
            /\ \E x \in Field :
                   /\ x.id = obs.pre.next_trans_id
                   /\ x.transmitter_id = obs.node_id
                   /\ x.start_time = sim_time
                   /\ logs = Append(obs.pre.logs, SentEntry(x))
       ELSE obs.action # "Init" => next_trans_id = obs.pre.next_trans_id

\* a send that succeeded after another send was refused, while an earlier
\* transmission is still on air
C11_Witness ==
    /\ obs.action = "SendMessage"
    /\ ~SenderWasBusy
    /\ next_trans_id >= 2
    /\ \E i \in DOMAIN logs : logs[i].content.type = "Text"
    /\ \E x \in Field : x.id < obs.pre.next_trans_id /\ x.end_time > sim_time

(***************************************************************************)
(* The kernel on a point topology and on a graph with non-adjacent nodes.  *)
(***************************************************************************)
InitTopologies ==
    \E topology \in {Points, Line} : \E messages \in Scenarios :
        StartsAs(run_simulation(
            [settings |-> [n \in Nodes |-> NodeSetting(7, "B868", 0)],
             topology |-> topology, fading |-> WeakStrongOrNear,
             messages |-> messages, model |-> "Any", seed |-> 0]))

SpecTopologies == InitTopologies /\ [][Next]_vars

ReceivedEntries ==
    {i \in DOMAIN logs : logs[i].content.type = "TransmissionReceived"}

\* the RecieveMessage events decided so far, or still queued, for the pair
Outcomes(node_id, transmission_id) ==
    Cardinality({i \in DOMAIN budget.received :
                    /\ budget.received[i].node_id = node_id
                    /\ budget.received[i].transmission_id = transmission_id})
    + Cardinality({i \in DOMAIN event_queue :
                    /\ event_queue[i].action = "RecieveMessage"
                    /\ event_queue[i].node_id = node_id
                    /\ event_queue[i].arg = transmission_id})

\* C12: every TransmissionReceived(rx, tid) entry has a transmission tid in
\* the EM field, rx is adjacent to its transmitter in the topology (and is
\* not the transmitter, in a point topology), the entry's time is the
\* transmission's end_time, and each pair of a transmission and a node has
\* one reception decision if the node is adjacent to the transmitter and
\* none otherwise.
C12_ReceivedMatchesSent ==
    /\ \A i \in ReceivedEntries :
           \E x \in Field :
               /\ x.id = logs[i].content.transmission_id
               /\ logs[i].content.receiver_id \in graph.adj[x.transmitter_id]
               /\ graph.kind = "Points"
                      => logs[i].content.receiver_id # x.transmitter_id
               /\ logs[i].time = x.end_time
    /\ \A x \in Field : \A n \in Nodes :
           Outcomes(n, x.id) = IF n \in graph.adj[x.transmitter_id] THEN 1 ELSE 0
    /\ \A i, j \in ReceivedEntries :
           (/\ logs[i].content.transmission_id = logs[j].content.transmission_id
            /\ logs[i].content.receiver_id = logs[j].content.receiver_id) => i = j

\* in a graph, a transmission of node 0 was received by its neighbour and
\* node 2, which is not adjacent to node 0, has had no RecieveMessage for it
C12_Witness ==
    /\ graph.kind = "Graph"
    /\ \E x \in Field :
           /\ x.transmitter_id = 0
           /\ x.end_time <= sim_time
           /\ ReceivedAt(1, x)
           /\ Outcomes(2, x.id) = 0
           /\ Outcomes(1, x.id) = 1

\* the power of the target at the receiving node, as power_at left it
TargetPower ==
    IF IsCached(cached_power_at, Target.id, obs.node_id)
    THEN cached_power_at[<<Target.id, obs.node_id>>]
    ELSE MIN_RECEIVED_POWER

NewLogs == SubSeq(logs, Len(obs.pre.logs) + 1, Len(logs))

\* C13: a RecieveMessage dispatch whose target is below the read threshold
\* at the receiver is TooWeak whatever else is on air, logs nothing and calls
\* no callback; one that is Blocked logs one TransmissionBlocked entry and
\* calls no callback; one that is a Success calls receive_message once, with
\* the SNR clamped to [SNR_MIN, SNR_MAX], and then logs one
\* TransmissionReceived entry.  No other dispatch calls receive_message.
C13_ReceiveOutcomes ==
    /\ WasCalled("receive_message")
           => (obs.action = "RecieveMessage" /\ obs.result = "Success")
    /\ obs.action = "RecieveMessage" =>
           /\ SubSeq(logs, 1, Len(obs.pre.logs)) = obs.pre.logs
           /\ obs.result \in {"TooWeak", "Blocked", "Success"}
           /\ TargetPower < snr_read_threshold(Target.sf) <=> obs.result = "TooWeak"
           /\ obs.result = "TooWeak" => (NewLogs = <<>> /\ obs.calls = <<>>)
           /\ obs.result = "Blocked" =>
                  /\ obs.calls = <<>>
                  /\ Len(NewLogs) = 1
                  /\ NewLogs[1].content.type = "TransmissionBlocked"
                  /\ NewLogs[1].content.receiver_id = obs.node_id
                  /\ NewLogs[1].content.target_transmission_id = obs.arg
           /\ obs.result = "Success" =>
                  /\ Len(obs.calls) = 1
                  /\ obs.calls[1].name = "receive_message"
                  /\ obs.calls[1].args.snr = Clamp(TargetPower, SNR_MIN, SNR_MAX)
                  /\ obs.calls[1].args.snr >= SNR_MIN
                  /\ obs.calls[1].args.snr <= SNR_MAX
                  /\ obs.calls[1].args.header = Target.header
                  /\ NewLogs # <<>>
                  /\ NewLogs[Len(NewLogs)] =
                         [time |-> sim_time, source |-> -1,
                          content |-> [type |-> "TransmissionReceived",
                                       receiver_id |-> obs.node_id,
                                       transmission_id |-> obs.arg]]
                  /\ \A i \in 1 .. (Len(NewLogs) - 1) :
                         NewLogs[i].content.type = "Text"

\* a reception whose SNR was clamped down to SNR_MAX, after a reception at
\* a node that was too weak although the node was transmitting itself
C13_Witness ==
    /\ obs.action = "RecieveMessage"
    /\ obs.result = "Success"
    /\ TargetPower > SNR_MAX
    /\ \E i \in DOMAIN budget.received :
           /\ budget.received[i].result = "TooWeak"
           /\ \E x, y \in Field :
                  /\ x.id = budget.received[i].transmission_id
                  /\ y.transmitter_id = budget.received[i].node_id
                  /\ overlaps(x, y)

\* the dispatch just made changed something other than the clock and the queue
DispatchActed ==
    \/ obs.calls # <<>>
    \/ obs.nl # <<>>
    \/ logs # obs.pre.logs
    \/ em_field # obs.pre.em_field
    \/ next_trans_id # obs.pre.next_trans_id
    \/ notify_status # obs.pre.notify_status
    \/ cached_power_at # obs.pre.cached_power_at

\* C14: no event due at or after SIM_END is dispatched: the step that pops
\* one leaves the event queue empty (finished() is true), calls no callback,
\* appends no log entry and leaves the EM field, the transmission ids and the
\* notification table as they were.
C14_Cutoff ==
    (obs.action # "Init" /\ obs.time >= SIM_END)
        => (event_queue = <<>> /\ sim_time = obs.time /\ ~DispatchActed)

\* the step popped an event due at the cutoff and drained another one
C14_Witness ==
    /\ obs.action = "GenerateMessage"
    /\ obs.time = SIM_END
    /\ obs.pre.event_queue # <<>>
    /\ event_queue = <<>>
    /\ logs # <<>>

(***************************************************************************)
(* run_simulation as a loop that always takes the next step, for the node  *)
(* models whose threads re-arm themselves.                                 *)
(***************************************************************************)
InitLoop ==
    \E model \in {"Meshtastic", "AcknowledgedOrRepeatFlood"} :
    \E seed \in Seeds : \E fading \in {Weak, Strong} :
    \E messages \in MeshScenarios :
        StartsAs(run_simulation(
            [settings |-> [n \in Nodes |-> NodeSetting(7, "B868", 0)],
             topology |-> TriangleWithTail, fading |-> fading,
             messages |-> messages, model |-> model, seed |-> seed]))

\* while !sim.finished() { sim.step() }: the loop takes a step whenever one is
\* enabled.  This is WF_vars(Next) with the enabling condition of Next, a
\* non-empty event queue (finished), written out.
SpecLoop ==
    /\ InitLoop /\ [][Next]_vars
    /\ ([]<>(event_queue = <<>>) \/ []<><<Next>>_vars)

\* C15: run_simulation terminates: the loop reaches an empty event queue,
\* which then stays empty, for a node model whose Routing thread re-arms
\* itself on every firing and for radio interfaces that draw backoff delays
\* of length zero.
C15_Terminates == <>[](event_queue = <<>>)

\* the run of a model that re-arms its thread unconditionally has ended at
\* the cutoff, after backoff delays of length zero were drawn
C15_Witness ==
    /\ event_queue = <<>>
    /\ sim_time >= SIM_END
    /\ obs.pre.event_queue # <<>>
    /\ \A n \in Nodes : nodes[n].model = "AcknowledgedOrRepeatFlood"
    /\ \E n \in Nodes : notify_status[n]["RoutingThread"].notification # None
    /\ budget.zero_delays > 0
    /\ em_field # <<>>

(***************************************************************************)
(* Meshtastic nodes that address packets to themselves: a user message     *)
(* whose single target is the node that generates it, and the Acks and     *)
(* Naks a node sends about its own packets.                                *)
(***************************************************************************)
InitSelf ==
    \E seed \in Seeds : \E fading \in {Weak, Strong} :
    \E spacing \in {SECONDS, 2 * SECONDS} :
        StartsAs(run_simulation(
            [settings |-> [n \in Nodes |-> NodeSetting(7, "B868", 0)],
             \* nodes 0 and 2 hear each other, nobody hears node 1
             topology |-> [kind |-> "Graph",
                           adj |-> [n \in Nodes |->
                                      {m \in Nodes : {m, n} = {0, 2}}]],
             fading |-> fading,
             messages |-> <<ScenarioMessage(0, {0}, 0, 1),
                            ScenarioMessage(0, {1}, spacing, 1),
                            ScenarioMessage(1, {2}, 2 * spacing, 1),
                            ScenarioMessage(2, {2}, SIM_END, 1)>>,
             model |-> "Meshtastic", seed |-> seed]))

SpecSelf == InitSelf /\ [][Next]_vars

\* the packets a node has logged as received that it sent to itself
SelfReceived(node_id) ==
    {logs[i].content.text[2] : i \in
        {j \in DOMAIN logs :
            /\ logs[j].source = node_id
            /\ logs[j].content.type = "Text"
            /\ logs[j].content.text[1] = "Received"
            /\ logs[j].content.text[2].header.sender = node_id
            /\ logs[j].content.text[2].header.dest = node_id}}

\* C16: base_send is never entered with a packet addressed to the node
\* itself, so it never panics, and no packet in a radio interface's queue is
\* addressed to the node that holds it.
C16_NoSelfSend ==
    /\ ~obs.panicked
    /\ \A n \in Nodes : \A i \in DOMAIN nodes[n].tx_queue :
           nodes[n].tx_queue[i].header.dest # n

\* node 0 has received its own user message and an Ack it addressed to
\* itself, node 1 a Nak it addressed to itself
C16_Witness ==
    /\ \E p \in SelfReceived(0) : p.message_content.type # "NodeMessage"
    /\ \E p \in SelfReceived(0) :
          p.message_content.type = "NodeMessage" /\ p.message_content.status = "NotError"
    /\ \E p \in SelfReceived(1) :
          p.message_content.type = "NodeMessage" /\ p.message_content.status = "MaxRetransmit"

(***************************************************************************)
(* Properties of the channel utilisation a node observes.                  *)
(***************************************************************************)
\* the simulation with the fading samples an observation at at_node may take
Observing(at_node) ==
    {[State EXCEPT !.draw = draw] : draw \in
        [{x.id : x \in {y \in Field :
                    /\ ~IsCached(cached_power_at, y.id, at_node)
                    /\ has_distance(State, y.transmitter_id, at_node)}}
            -> transmission_model.random_fading]}

\* the look-back window of observed_utalisation
WindowStart == sim_time - (5 * UTIL_PERIOD_LENGTH + (sim_time % UTIL_PERIOD_LENGTH))

\* the transmissions at_node detects that reach into the window
DetectedInWindow(s, at_node) ==
    {x \in Field : /\ x.end_time >= WindowStart
                   /\ x.start_time < sim_time
                   /\ detected_at(s, cached_power_at, at_node, x)}

RECURSIVE SumLengths(_)
SumLengths(segments) ==
    IF segments = {} THEN 0
    ELSE LET seg == CHOOSE x \in segments : TRUE
         IN  (seg[2] - seg[1]) + SumLengths(segments \ {seg})

\* the length of the part of the window that some detected transmission
\* covers: every instant once
CoveredTime(s, at_node) ==
    LET clipped == {<<Max(x.start_time, WindowStart), Min(x.end_time, sim_time)>> :
                        x \in DetectedInWindow(s, at_node)}
        points == {i[1] : i \in clipped} \cup {i[2] : i \in clipped}
        segments == {seg \in points \X points :
                        /\ seg[1] < seg[2]
                        /\ ~ \E r \in points : seg[1] < r /\ r < seg[2]
                        /\ \E i \in clipped : i[1] <= seg[1] /\ seg[2] <= i[2]}
    IN  SumLengths(segments)

\* C17: for every observer and every fading sample, the time counted by
\* observed_utalisation is not negative, is at most the time of the window
\* covered by detected transmissions (each instant counted at most once),
\* and its ratio to the look-back time is at most 1.00001.
C17_UtilisationInRange ==
    \A n \in Nodes : \A s \in Observing(n) :
        LET u == observed_utalisation(s, n)
        IN  /\ u.total >= 0
            /\ u.total <= CoveredTime(s, n)
            /\ u.look_back_time > 0
            /\ u.total <= u.look_back_time + u.look_back_time \div 100000

\* before 60 s, an observer detects two overlapping transmissions that are
\* still in flight, and has counted time
C17_Witness ==
    /\ sim_time < 6 * UTIL_PERIOD_LENGTH
    /\ \E n \in Nodes : \E s \in Observing(n) :
        /\ observed_utalisation(s, n).total > 0
        /\ \E x, y \in DetectedInWindow(s, n) :
              /\ x.id # y.id
              /\ overlaps(x, y)
              /\ x.end_time > sim_time
              /\ y.end_time > sim_time

(***************************************************************************)
(* Context::change_sf, change_coding_rate and change_power, called in any  *)
(* order on the Context of one node.  A power is an f64: NAN stands for    *)
(* the values that compare false with everything.                          *)
(***************************************************************************)
NAN == -1000000

\* Context::change_sf: the simulation after the call and the Result
change_sf(s, node_id, sf) ==
    IF sf < 7 \/ sf > 12
    THEN [s |-> s, result |-> "NodeUpdateError"]
    ELSE [s |-> [s EXCEPT !.node_settings[node_id].sf = sf], result |-> "Ok"]

\* Context::change_coding_rate
change_coding_rate(s, node_id, coding_rate) ==
    IF coding_rate < 4
    THEN [s |-> s, result |-> "NodeUpdateError"]
    ELSE [s |-> [s EXCEPT !.node_settings[node_id].coding_rate = coding_rate],
          result |-> "Ok"]

\* Context::change_power; use_power > max_power is the derived PartialOrd
\* of Db over f64
change_power(s, node_id, use_power) ==
    LET max_power == s.node_settings[node_id].max_power
    IN  IF use_power # NAN /\ max_power # NAN /\ use_power > max_power
        THEN [s |-> s, result |-> "NodeUpdateError"]
        ELSE [s |-> [s EXCEPT !.node_settings[node_id].use_power = use_power],
              result |-> "Ok"]

\* a Context of one node of a simulation that has been initialised
InitSettings ==
    \E node_id \in Nodes :
        StartsAs([run_simulation(
                     [settings |-> [n \in Nodes |-> NodeSetting(7, "B868", 0)],
                      topology |-> TriangleWithTail, fading |-> Strong,
                      messages |-> <<>>, model |-> "Any", seed |-> 0])
                  EXCEPT !.obs = [node_id |-> node_id, call |-> "new", arg |-> 0,
                                  result |-> "Ok",
                                  pre |-> NodeSetting(7, "B868", 0)]])

\* the history of a call: what was asked, the Result, the settings before
Changed(r, call, arg) ==
    Becomes([r.s EXCEPT !.obs = [node_id |-> obs.node_id, call |-> call, arg |-> arg,
                                 result |-> r.result,
                                 pre |-> node_settings[obs.node_id]]])

ChangeSf ==
    \E sf \in {6, 7, 12, 13} : Changed(change_sf(State, obs.node_id, sf), "change_sf", sf)

ChangeCodingRate ==
    \E coding_rate \in {3, 4, 8} :
        Changed(change_coding_rate(State, obs.node_id, coding_rate),
                "change_coding_rate", coding_rate)

ChangePower ==
    \E use_power \in {NAN, 40, 44, 45} :
        Changed(change_power(State, obs.node_id, use_power), "change_power", use_power)

SpecSettings == InitSettings /\ [][ChangeSf \/ ChangeCodingRate \/ ChangePower]_vars

\* the call just made was refused and the settings are as before
Refused == obs.result = "NodeUpdateError" /\ node_settings = [node_settings EXCEPT ![obs.node_id] = obs.pre]

\* the call just made stored its argument in this field, and only that
Stored(field) ==
    /\ obs.result = "Ok"
    /\ node_settings = [node_settings EXCEPT ![obs.node_id] = [obs.pre EXCEPT ![field] = obs.arg]]

\* C18: change_sf, change_coding_rate and change_power refuse an sf outside
\* [7,12], a coding rate below 4 and a power above max_power, leaving the
\* settings unchanged, and otherwise store the value; and the settings
\* always have sf in [7,12], coding_rate >= 4 and use_power <= max_power.
C18_SettingsInRange ==
    LET setting == node_settings[obs.node_id]
    IN  /\ obs.call = "change_sf" =>
              IF obs.arg < 7 \/ obs.arg > 12 THEN Refused ELSE Stored("sf")
        /\ obs.call = "change_coding_rate" =>
              IF obs.arg < 4 THEN Refused ELSE Stored("coding_rate")
        /\ obs.call = "change_power" =>
              IF obs.arg # NAN /\ obs.arg > obs.pre.max_power
              THEN Refused ELSE Stored("use_power")
        /\ setting.sf \in 7 .. 12
        /\ setting.coding_rate >= 4
        /\ setting.use_power # NAN /\ setting.use_power <= setting.max_power

(***************************************************************************)
(* LiveSimulation: a simulation that is stepped to the time asked for, and *)
(* restored from its base when asked for an earlier time.  base is never   *)
(* written after LiveSimulation::new, so it is init_simulation of the      *)
(* input.                                                                  *)
(***************************************************************************)
\* Simulation::step after the cutoff test, on a simulation given as a record:
\* the event is popped and dispatched by its action.  The result is the set
\* of simulations it may leave, one for each value the fading samples take.
dispatch(s) ==
    LET event == HeapTop(s.event_queue)
        s1 == [s EXCEPT !.event_queue = HeapPop(@), !.sim_time = event.time]
        popped == [s1 EXCEPT !.obs = NewObs(event, s1, s.sim_time)]
        observed == [samples_observed(popped, event.node_id)
                        -> s.transmission_model.random_fading]
    IN  IF event.action = "GenerateMessage"
        THEN UNION {generate_message([popped EXCEPT !.draw = draw], event.node_id,
                                     GeneratedMessage(event.arg),
                                     s.test_messages[event.arg + 1]) :
                        draw \in observed}
        ELSE IF event.action = "RecieveMessage"
        THEN UNION {receive_dispatch(popped, event.node_id, event.arg, draw) :
                        draw \in [samples_needed(popped, event.node_id,
                                      find_transmission(s.em_field, event.arg))
                                    -> s.transmission_model.random_fading]}
        ELSE IF event.action = "SendMessage"
        THEN try_broadcast(popped, event.node_id, event.arg.header,
                           event.arg.message_content)
        ELSE UNION {notify_dispatch([popped EXCEPT !.draw = draw], event.node_id,
                                    event.arg) :
                        draw \in observed}

\* Simulation::step on a simulation given as a record
step(s) ==
    LET event == HeapTop(s.event_queue)
        s1 == [s EXCEPT !.event_queue = <<>>, !.sim_time = event.time]
    IN  IF event.time >= SIM_END
        THEN {[s1 EXCEPT !.obs = NewObs(event,
                                        [s1 EXCEPT !.event_queue = HeapPop(s.event_queue)],
                                        s.sim_time)]}
        ELSE dispatch(s)

\* the loop of inspect_node: step while the next event is due by at_time
RECURSIVE step_until(_, _)
step_until(active, at_time) ==
    IF active.event_queue # <<>> /\ HeapTop(active.event_queue).time <= at_time
    THEN UNION {step_until(stepped, at_time) : stepped \in step(active)}
    ELSE {active}

\* inspect_node without the restore from base
inspect_node_active(s, at_time) == step_until(s, at_time)

\* LiveSimulation::inspect_node: the active simulation it leaves; the node
\* it returns is nodes[node_id] of it
inspect_node(s, at_time) ==
    step_until(IF at_time < s.sim_time THEN run_simulation(s.runs.input) ELSE s,
               at_time)

QueryTimes == {-1, 0, MILLIS, SECONDS, 10 * SECONDS, 60 * SECONDS, SIM_END}

Inspect ==
    \E node_id \in Nodes : \E at_time \in QueryTimes :
    \E active \in inspect_node(State, at_time) :
        \* history: the call, the time the simulation was at, the node returned
        Becomes([active EXCEPT
                   !.draw = <<>>,
                   !.obs = [NewObs([action |-> "inspect_node", node_id |-> node_id,
                                    arg |-> at_time, time |-> active.sim_time],
                                   active, sim_time)
                              EXCEPT !.result = active.nodes[node_id]]])

SpecLive == InitSelf /\ [][Inspect]_vars

\* a new LiveSimulation of the same input, asked once
Fresh(at_time) == inspect_node(run_simulation(runs.input), at_time)

RECURSIVE dispatched_until(_, _)
dispatched_until(s, at_time) ==
    IF s.event_queue # <<>> /\ HeapTop(s.event_queue).time <= at_time
    THEN UNION {dispatched_until(d, at_time) : d \in dispatch(s)}
    ELSE {s}

Gaps == {355 * MILLIS, 365 * MILLIS, 375 * MILLIS}

InitFlood ==
    \E seed \in Seeds : \E gap \in Gaps : \E count \in {1, 2} :
        StartsAs(run_simulation(
            [settings |-> [n \in Nodes |-> NodeSetting(7, "B868", 0)],
             topology |-> TriangleWithTail, fading |-> Strong,
             messages |-> <<ScenarioMessage(0, Nodes \ {0}, 0, count),
                            ScenarioMessage(1, Nodes \ {1}, gap, 1),
                            ScenarioMessage(2, Nodes \ {2}, SIM_END, 1)>>,
             model |-> "Meshtastic", seed |-> seed]))

SpecFlood == InitFlood /\ [][Next]_vars

(***************************************************************************)
(* Properties of the radio interface when its transmit delay completes.    *)
(***************************************************************************)
\* the step delivers a TransmitDelayCompleted notification
RadioFired ==
    /\ Dispatching("MaybeNotify")
    /\ notify_status[Event.node_id][Event.arg].at_time = Event.time
    /\ notify_status[Event.node_id][Event.arg].notification = "TransmitDelayCompleted"

\* at the instant of the step, the node transmits or detects a transmission:
\* the power of an active transmission is the one the step sampled or had in
\* the cache, and one never sampled is any power the fading can give
RadioBusy ==
    \E x \in Field :
        /\ x.end_time >= Event.time
        /\ \/ x.transmitter_id = Event.node_id
           \/ /\ node_settings[Event.node_id].carrier_band = x.carrier_band
              /\ has_distance(State, x.transmitter_id, Event.node_id)
              /\ IF IsCached(cached_power_at', x.id, Event.node_id)
                 THEN cached_power_at'[<<x.id, Event.node_id>>]
                          >= snr_detect_threshold(x.sf)
                 ELSE \A power \in transmission_model.random_fading :
                          power >= snr_detect_threshold(x.sf)

\* the SendMessage events of the node in a queue
SendEvents(queue, node_id) ==
    {i \in DOMAIN queue : queue[i].action = "SendMessage" /\ queue[i].node_id = node_id}

\* the number of packets the step handed to enqueue_send
HandedOver ==
    Cardinality(SendEvents(event_queue', Event.node_id))
        - Cardinality(SendEvents(HeapPop(event_queue), Event.node_id))

\* the step left the Radio thread armed, from now on
ReArmed ==
    LET status == notify_status'[Event.node_id]["RadioThread"]
    IN  /\ status.notification = "TransmitDelayCompleted"
        /\ status.at_time >= Event.time
        /\ \E i \in DOMAIN event_queue' :
              event_queue'[i] = [time |-> status.at_time, action |-> "MaybeNotify",
                                 node_id |-> Event.node_id, arg |-> "RadioThread"]

\* the step handed over the front packet of the queue, and only it
FrontHandedOver ==
    LET tx_queue == nodes[Event.node_id].tx_queue
    IN  /\ HandedOver = 1
        /\ nodes'[Event.node_id].tx_queue = Tail(tx_queue)
        /\ \E i \in DOMAIN event_queue' :
              event_queue'[i] =
                  [time |-> Event.time + node_settings[Event.node_id].reaction_time,
                   action |-> "SendMessage", node_id |-> Event.node_id,
                   arg |-> [header |-> Head(tx_queue).header,
                            message_content |-> Head(tx_queue).message_content]]

\* the step kept the queue and handed nothing over
NothingHandedOver ==
    /\ HandedOver = 0
    /\ nodes'[Event.node_id].tx_queue = nodes[Event.node_id].tx_queue

\* C20: when a TransmitDelayCompleted notification is delivered and the
\* queue is not empty, the front packet, and only it, is handed to
\* enqueue_send if the node neither transmits nor detects a transmission at
\* that instant; otherwise the queue is left unchanged and the Radio thread
\* is re-armed.  With an empty queue nothing is handed over and the thread
\* is not re-armed.
C20_HandOver ==
    [][RadioFired =>
          IF nodes[Event.node_id].tx_queue = <<>>
          THEN NothingHandedOver /\ ~ReArmed
          ELSE IF RadioBusy THEN NothingHandedOver /\ ReArmed
          ELSE FrontHandedOver]_vars

\* C20 as stated, without the case of an empty queue: a packet is handed over
\* only if the node is not busy, and then it is the front packet alone;
\* otherwise the queue is left unchanged and the Radio thread is re-armed
C20_AsStated ==
    [][RadioFired =>
          /\ HandedOver > 0 => ~RadioBusy /\ FrontHandedOver
          /\ RadioBusy => NothingHandedOver /\ ReArmed]_vars

\* the last step delivered a TransmitDelayCompleted notification to a node
\* while another node was transmitting
FiredWhileHeard ==
    /\ obs.action = "MaybeNotify" /\ obs.arg = "RadioThread"
    /\ obs.pre.notify_status[obs.node_id]["RadioThread"] =
           [obs.pre.notify_status[obs.node_id]["RadioThread"] EXCEPT
               !.notification = "TransmitDelayCompleted", !.at_time = obs.time]
    /\ \E x \in Field :
          /\ x.transmitter_id # obs.node_id
          /\ x.start_time <= obs.time /\ x.end_time >= obs.time
          /\ IsCached(cached_power_at, x.id, obs.node_id)
          /\ cached_power_at[<<x.id, obs.node_id>>] >= snr_detect_threshold(x.sf)

\* a node with a packet in its queue was notified while it heard another
\* node: the packet is still in the queue, no packet was handed over and the
\* Radio thread is armed again
C20_Witness ==
    /\ FiredWhileHeard
    /\ nodes[obs.node_id].tx_queue # <<>>
    /\ SendEvents(event_queue, obs.node_id) = {}
    /\ notify_status[obs.node_id]["RadioThread"].notification = "TransmitDelayCompleted"
    /\ notify_status[obs.node_id]["RadioThread"].at_time >= obs.time
(***************************************************************************)
(* Properties of the radio interface's queue between dispatches.           *)
(***************************************************************************)
\* the node models that own a MeshtasticRadioInterface
UsesRadioInterface(node_id) ==
    nodes[node_id].model \in {"Meshtastic", "AcknowledgedOrRepeatFlood"} \cup FloodModels

\* the thread of the node has a notification pending that is due now or
\* later, and the MaybeNotify event that will deliver it is in the queue
WakeUpPending(node_id, thread, notification) ==
    LET status == notify_status[node_id][thread]
    IN  /\ status.notification = notification
        /\ status.at_time >= sim_time
        /\ \E i \in DOMAIN event_queue :
              event_queue[i] = [time |-> status.at_time, action |-> "MaybeNotify",
                                node_id |-> node_id, arg |-> thread]

\* C21: between dispatches before the cutoff, a node whose radio interface
\* has a packet in its tx_queue has a TransmitDelayCompleted notification
\* pending on its Radio thread, due at sim_time or later, with its
\* MaybeNotify event in the event queue.
C21_QueueHasWakeUp ==
    sim_time < SIM_END =>
        \A n \in Nodes :
            UsesRadioInterface(n) /\ nodes[n].tx_queue # <<>>
                => WakeUpPending(n, "RadioThread", "TransmitDelayCompleted")

\* the Radio thread of a node has just handed a packet over and another
\* packet is still waiting in its queue
C21_Witness ==
    /\ obs.action = "MaybeNotify" /\ obs.arg = "RadioThread"
    /\ sim_time < SIM_END
    /\ SendEvents(event_queue, obs.node_id) # {}
    /\ SendEvents(obs.pre.event_queue, obs.node_id) = {}
    /\ nodes[obs.node_id].tx_queue # <<>>
(***************************************************************************)
(* The radio interface as a component: node 0, which nobody hears, is a    *)
(* node model that calls send, priority_send and cancel_sending between    *)
(* the dispatches of the simulation.  It numbers its packets in the order  *)
(* it adds them and marks those it adds with priority_send by want_ack.    *)
(***************************************************************************)
MaxPackets == 3

\* the packet the node model adds next
NextPacket(priority) ==
    [header |-> [dest |-> Broadcast, sender |-> 0,
                 packet_id |-> nodes[0].next_packet_id,
                 hop_limit |-> 0, hop_start |-> 0, want_ack |-> priority],
     message_content |-> Empty, size |-> 20, snr |-> <<>>]

InitRadio ==
    \E seed \in 0 .. 3 : \E reaction_time \in {0, MILLIS} :
        StartsAs(run_simulation(
            [settings |-> [n \in Nodes |-> NodeSetting(7, "B868", reaction_time)],
             topology |-> [kind |-> "Graph", adj |-> [n \in Nodes |-> {}]],
             fading |-> Strong, messages |-> <<>>, model |-> "Meshtastic",
             seed |-> seed]))

\* the state after a call of the node model, which takes a new packet id
AfterCall(s) ==
    Becomes([s EXCEPT !.nodes[0].next_packet_id = @ + 1,
                      !.obs = NewObs([action |-> "Call", node_id |-> 0, arg |-> 0,
                                      time |-> sim_time], s, sim_time)])

RadioSend ==
    /\ nodes[0].next_packet_id < MaxPackets
    /\ AfterCall(send(State, 0, NextPacket(FALSE)))

RadioPrioritySend ==
    /\ nodes[0].next_packet_id < MaxPackets
    /\ AfterCall(priority_send(State, 0, NextPacket(TRUE)))

\* cancel_sending for a packet that waits in the queue; for any other key it
\* only writes its log line
RadioCancelSending ==
    \E packet_id \in 0 .. MaxPackets - 1 :
        /\ \E i \in DOMAIN nodes[0].tx_queue :
              nodes[0].tx_queue[i].header.packet_id = packet_id
        /\ Becomes(cancel_sending(State, 0, [node_id |-> 0, packet_id |-> packet_id]))

SpecRadio ==
    InitRadio /\ [][RadioSend \/ RadioPrioritySend \/ RadioCancelSending
                      \/ StepSendMessage \/ StepMaybeNotify]_vars

\* the packets of the SendMessage events of node 0 in a queue
SendHeaders(queue) ==
    {queue[i].arg.header : i \in SendEvents(queue, 0)}

\* the headers of the packets waiting in a tx_queue
Waiting(tx_queue) == {tx_queue[i].header : i \in DOMAIN tx_queue}

\* C22: a packet handed to enqueue_send leaves the queue in queue order: of
\* the packets that stay behind, one added with send was added after it if
\* it was added with send itself, and one added with priority_send was added
\* before it, so a packet added with priority_send never waits for a packet
\* that was queued when it was added.
C22_QueueOrder ==
    [][\A p \in SendHeaders(event_queue') \ SendHeaders(event_queue) :
       \A q \in Waiting(nodes'[0].tx_queue) :
           /\ ~p.want_ack /\ ~q.want_ack => p.packet_id < q.packet_id
           /\ q.want_ack => q.packet_id < p.packet_id]_vars

\* a packet added with priority_send has just been handed over while a
\* packet added with send before it and a packet added with priority_send
\* before it wait in the queue
C22_Witness ==
    /\ obs.action = "MaybeNotify"
    /\ \E p \in SendHeaders(event_queue) \ SendHeaders(obs.pre.event_queue) :
          /\ p.want_ack
          /\ \E q \in Waiting(nodes[0].tx_queue) :
                q.want_ack /\ q.packet_id < p.packet_id
          /\ \E q \in Waiting(nodes[0].tx_queue) :
                ~q.want_ack /\ q.packet_id < p.packet_id
(***************************************************************************)
(* Meshtastic nodes with the reaction time of the default node settings:   *)
(* node 0 generates two messages 1 ms or one air time apart, for seeds     *)
(* whose streams hold a backoff draw of zero at different positions.       *)
(***************************************************************************)
\* NodeSettings::default: reaction_time is 0.1 ms, rounded to the time unit
REACTION_TIME == 13

InitReact ==
    \E seed \in 0 .. 3 : \E reaction_time \in {0, REACTION_TIME} :
    \E messages \in MeshScenarios :
        StartsAs(run_simulation(
            [settings |-> [n \in Nodes |-> NodeSetting(7, "B868", reaction_time)],
             topology |-> TriangleWithTail, fading |-> Strong,
             messages |-> messages, model |-> "Meshtastic", seed |-> seed]))

SpecReact == InitReact /\ [][Next]_vars

\* C23: for nodes that transmit through the radio interface, no SendMessage
\* event is dispatched while its sender is transmitting: RadioBusyError does
\* not occur and no packet handed over by the radio interface is lost.
C23_NoRadioBusy ==
    (\A n \in Nodes : UsesRadioInterface(n)) => ~SenderWasBusy /\ ~obs.busy
(***************************************************************************)
(* Properties of the retransmissions of a Meshtastic node.                 *)
(***************************************************************************)
\* the number of flood_send calls of a node for a packet, in a history
FloodSends(floods, node_id, key) ==
    Cardinality({i \in DOMAIN floods :
                    floods[i].node_id = node_id /\ floods[i].key = key})

\* the step delivers a Routing notification to the node
RoutingFired(node_id) ==
    /\ Dispatching("MaybeNotify")
    /\ Event.node_id = node_id
    /\ notify_status[node_id][Event.arg].at_time = Event.time
    /\ notify_status[node_id][Event.arg].notification = "Routing"

\* the step made the node handle a MaxRetransmit status about the packet,
\* sent by the node to itself
NakIssued(node_id, key) ==
    \E i \in DOMAIN logs' :
        /\ i > Len(logs)
        /\ logs'[i].source = node_id
        /\ logs'[i].content.type = "Text"
        /\ logs'[i].content.text[1] = "Received"
        /\ logs'[i].content.text[2].header.sender = node_id
        /\ logs'[i].content.text[2].header.dest = key.node_id
        /\ logs'[i].content.text[2].message_content =
               [type |-> "NodeMessage", status |-> "MaxRetransmit",
                about_id |-> key.packet_id]

\* C24: a Meshtastic node calls flood_send at most NUM_RETRANSMISSIONS times
\* for a packet it originated; a retransmission is made only for an entry
\* of the pending map whose next_tx has passed and that has retransmissions
\* left; and when the Routing thread runs with an entry whose next_tx has
\* passed and that has none left, the node issues a MaxRetransmit status
\* addressed to the packet's sender, removes the entry and does not send.
C24_Retransmissions ==
    [][\A n \in Nodes : nodes[n].model = "Meshtastic" =>
          /\ \A key \in {budget'.floods[i].key : i \in DOMAIN budget'.floods} :
                LET before == FloodSends(budget.floods, n, key)
                    after == FloodSends(budget'.floods, n, key)
                IN  /\ key.node_id = n => after <= NUM_RETRANSMISSIONS
                    /\ key.node_id = n /\ before > 0 /\ after > before =>
                          /\ after = before + 1
                          /\ RoutingFired(n)
                          /\ key \in DOMAIN nodes[n].pending
                          /\ nodes[n].pending[key].next_tx <= sim_time'
                          /\ nodes[n].pending[key].num_retransmissions > 0
          /\ \A key \in DOMAIN nodes[n].pending :
                /\ RoutingFired(n)
                /\ nodes[n].pending[key].next_tx <= Event.time
                /\ nodes[n].pending[key].num_retransmissions = 0
                => /\ key \notin DOMAIN nodes'[n].pending
                   /\ FloodSends(budget'.floods, n, key)
                          = FloodSends(budget.floods, n, key)
                   /\ NakIssued(n, key)]_vars

\* a node has sent a packet of its own NUM_RETRANSMISSIONS times, and the
\* Routing thread has just removed its pending entry and issued the
\* MaxRetransmit status
C24_Witness ==
    /\ obs.action = "MaybeNotify"
    /\ nodes[obs.node_id].model = "Meshtastic"
    /\ \E i \in DOMAIN budget.floods :
          LET key == budget.floods[i].key
          IN  /\ key.node_id = obs.node_id
              /\ FloodSends(budget.floods, obs.node_id, key) = NUM_RETRANSMISSIONS
              /\ key \notin DOMAIN nodes[obs.node_id].pending
              /\ \E j \in DOMAIN logs :
                    /\ logs[j].time = sim_time
                    /\ logs[j].source = obs.node_id
                    /\ logs[j].content.type = "Text"
                    /\ logs[j].content.text[1] = "Received"
                    /\ logs[j].content.text[2].message_content =
                           [type |-> "NodeMessage", status |-> "MaxRetransmit",
                            about_id |-> key.packet_id]
(***************************************************************************)
(* Properties of a Meshtastic node that hears its own packet.              *)
(***************************************************************************)
\* the packets of its own for which the node, hearing them while they were
\* pending, has acknowledged to itself, with the time it did: the log
\* entries of the NotError status it sent to itself and then handled
HeardOwn(node_id) ==
    {[packet_id |-> logs[i].content.text[2].message_content.about_id,
      time |-> logs[i].time] : i \in
        {j \in DOMAIN logs :
            /\ logs[j].source = node_id
            /\ logs[j].content.type = "Text"
            /\ logs[j].content.text[1] = "Received"
            /\ logs[j].content.text[2].header.sender = node_id
            /\ logs[j].content.text[2].header.dest = node_id
            /\ logs[j].content.text[2].message_content.type = "NodeMessage"
            /\ logs[j].content.text[2].message_content.status = "NotError"}}

IsCopy(header, node_id, packet_id) ==
    header.sender = node_id /\ header.packet_id = packet_id

\* the reaction times of the relaying neighbour: so long that its
\* rebroadcast of the packet goes out while the originator is about to
\* retransmit it
LateReactions == {912000 + 100 * k : k \in 0 .. 21}

\* node 0 sends one packet to an unreachable node 2; node 1, its only
\* neighbour, relays it late; a message generated at the cutoff is not sent
InitLate ==
    \E reaction_time \in LateReactions :
        StartsAs(run_simulation(
            [settings |-> [n \in Nodes |->
                 NodeSetting(7, "B868",
                             IF n = 1 THEN reaction_time ELSE MILLIS)],
             topology |-> [kind |-> "Graph",
                           adj |-> [n \in Nodes |->
                                       {m \in Nodes : {m, n} = {0, 1}}]],
             fading |-> Strong,
             messages |-> <<ScenarioMessage(0, {2}, 0, 1),
                            ScenarioMessage(2, {2}, SIM_END, 1)>>,
             model |-> "Meshtastic", seed |-> 0]))

SpecLate == InitLate /\ [][Next]_vars

Routed(routed, node_id) ==
    LET own == SelectSeq(routed, LAMBDA call : call.node_id = node_id)
    IN  [i \in DOMAIN own |-> own[i].packet]

IsPrefix(short, long) ==
    Len(short) <= Len(long) /\ SubSeq(long, 1, Len(short)) = short

\* the gaps between the two messages node 0 addresses to itself: within the
\* millisecond the Routing thread takes to wake up, and after it
RoutingGaps == {60, MILLIS, SECONDS}

\* node 0 addresses two messages to itself while its neighbours send it one
\* each
InitRouting ==
    \E seed \in Seeds : \E gap \in RoutingGaps :
        StartsAs(run_simulation(
            [settings |-> [n \in Nodes |-> NodeSetting(7, "B868", 0)],
             topology |-> [kind |-> "Graph",
                           adj |-> [n \in Nodes |-> Nodes \ {n}]],
             fading |-> Strong,
             messages |-> <<ScenarioMessage(0, {0}, 0, 1),
                            ScenarioMessage(0, {0}, gap, 1),
                            ScenarioMessage(1, {0}, gap, 1),
                            ScenarioMessage(2, {0}, SECONDS, 1),
                            ScenarioMessage(2, {2}, SIM_END, 1)>>,
             model |-> "Meshtastic", seed |-> seed]))

\* while !sim.finished() { sim.step() }: a step is taken whenever the event
\* queue is not empty
SpecRouting ==
    /\ InitRouting /\ [][Next]_vars
    /\ ([]<>(event_queue = <<>>) \/ []<><<Next>>_vars)

\* before the cutoff, a Meshtastic node with a packet in from_radio_queue
\* has a Routing notification pending on its Routing thread, due at sim_time
\* or later, with its MaybeNotify event in the event queue
ReceivedHasWakeUp ==
    sim_time < SIM_END =>
        \A n \in Nodes :
            nodes[n].model = "Meshtastic" /\ nodes[n].from_radio_queue # <<>>
                => WakeUpPending(n, "RoutingThread", "Routing")

\* a run of the Routing thread passes the packets of from_radio_queue to
\* perhaps_handle_received, first to last, then the packets the node
\* addressed to itself during the run, all of them acks, and leaves the
\* queue empty; no other step of the run passes a packet to
\* perhaps_handle_received
RoutingCycle ==
    \A n \in Nodes : nodes[n].model = "Meshtastic" /\ runs'.run = runs.run =>
        LET before == Routed(budget.routed, n)
            after == Routed(budget'.routed, n)
            added == SubSeq(after, Len(before) + 1, Len(after))
            waiting == nodes[n].from_radio_queue
        IN  /\ IsPrefix(before, after)
            /\ RoutingFired(n) =>
                  /\ nodes'[n].from_radio_queue = <<>>
                  /\ IsPrefix(waiting, added)
                  /\ \A i \in Len(waiting) + 1 .. Len(added) :
                         /\ added[i].header.sender = n
                         /\ added[i].header.dest = n
                         /\ added[i].message_content.type = "NodeMessage"
            /\ ~RoutingFired(n) => after = before

\* C26: for a Meshtastic node, in every state between dispatches before the
\* cutoff a non-empty from_radio_queue has a live Routing notification;
\* every run of the Routing thread hands the waiting packets to
\* perhaps_handle_received in the order they arrived, with the acks the node
\* addresses to itself meanwhile, and leaves the queue empty; so a packet
\* in the queue is handled, unless the cutoff comes first.
C26_FromRadioQueue ==
    /\ [][ReceivedHasWakeUp' /\ RoutingCycle]_vars
    /\ \A n \in Nodes :
          (nodes[n].from_radio_queue # <<>>)
              ~> (nodes[n].from_radio_queue = <<>> \/ sim_time >= SIM_END)

\* the Routing thread of a node has just run with two packets waiting and
\* has handled an ack the node addressed to itself during the run
C26_Witness ==
    /\ obs.action = "MaybeNotify" /\ obs.arg = "RoutingThread"
    /\ nodes[obs.node_id].model = "Meshtastic"
    /\ Len(obs.pre.nodes[obs.node_id].from_radio_queue) = 2
    /\ nodes[obs.node_id].from_radio_queue = <<>>
    /\ Len(Routed(budget.routed, obs.node_id))
           > Len(Routed(obs.pre.routed, obs.node_id)) + 2

(***************************************************************************)
(* Properties of the Routing thread's wake-ups for pending packets.        *)
(***************************************************************************)
\* C27: between dispatches before the cutoff, a Meshtastic node with an
\* entry in its pending map has a Routing notification pending on its
\* Routing thread, due at sim_time or later, with its MaybeNotify event in
\* the event queue.
C27_PendingHasWakeUp ==
    sim_time < SIM_END =>
        \A n \in Nodes :
            nodes[n].model = "Meshtastic" /\ DOMAIN nodes[n].pending # {}
                => WakeUpPending(n, "RoutingThread", "Routing")

\* the Routing thread of a node has just retransmitted a pending packet and
\* is scheduled again at the packet's next_tx, more than the millisecond
\* of a reception away
C27_Witness ==
    /\ obs.action = "MaybeNotify" /\ obs.arg = "RoutingThread"
    /\ nodes[obs.node_id].model = "Meshtastic"
    /\ sim_time < SIM_END
    /\ \E key \in DOMAIN nodes[obs.node_id].pending :
          /\ FloodSends(budget.floods, obs.node_id, key) = 2
          /\ budget.floods[Len(budget.floods)] =
                 [node_id |-> obs.node_id, key |-> key, time |-> sim_time]
          /\ nodes[obs.node_id].pending[key].next_tx
                 = notify_status[obs.node_id]["RoutingThread"].at_time
    /\ notify_status[obs.node_id]["RoutingThread"].at_time > sim_time + MILLIS
    /\ WakeUpPending(obs.node_id, "RoutingThread", "Routing")

(***************************************************************************)
(* Properties of the packets a Meshtastic node forwards.                   *)
(***************************************************************************)
\* the time node 1 takes to start a transmission handed to its radio: none,
\* or so long that node 0 starts its second packet meanwhile and misses the
\* ack of the first
SlowReactions == {0, 50 * MILLIS}

LineGaps == {MILLIS, 20 * MILLIS, 40 * MILLIS, 60 * MILLIS, 80 * MILLIS, 100 * MILLIS}

\* a line of Meshtastic nodes: node 0 sends two packets to node 1, node 2
\* hears node 1 only
InitLine ==
    \E seed \in Seeds : \E gap \in LineGaps : \E reaction_time \in SlowReactions :
        StartsAs(run_simulation(
            [settings |-> [n \in Nodes |->
                 NodeSetting(7, "B868", IF n = 1 THEN reaction_time ELSE 0)],
             topology |-> Line, fading |-> Strong,
             messages |-> <<ScenarioMessage(0, {1}, 0, 1),
                            ScenarioMessage(0, {1}, gap, 1),
                            ScenarioMessage(2, {2}, SIM_END, 1)>>,
             model |-> "Meshtastic", seed |-> seed]))

SpecLine == InitLine /\ [][Next]_vars

\* the headers in a queue of packets
Headers(queue) == {queue[i].header : i \in DOMAIN queue}

\* the header is that of the packet, forwarded
Forwards(header, packet) ==
    /\ header.sender = packet.header.sender
    /\ header.packet_id = packet.header.packet_id
    /\ header.dest = packet.header.dest
    /\ header.hop_start = packet.header.hop_start
    /\ header.hop_limit = packet.header.hop_limit - 1

\* C28: a packet of another node's that a Meshtastic node puts into the
\* queue of its radio interface is a packet the node has been passed in
\* the same run of its Routing thread, not addressed to the node, with a
\* hop_limit above 0, and is queued with hop_limit - 1; no header in a
\* Meshtastic node's queue, and none it transmits, has a hop_limit below 0.
C28_Rebroadcast ==
    [][\A n \in Nodes : nodes[n].model = "Meshtastic" /\ runs'.run = runs.run =>
          LET before == Routed(budget.routed, n)
              after == Routed(budget'.routed, n)
              passed == {after[i] : i \in Len(before) + 1 .. Len(after)}
          IN  /\ \A header \in Headers(nodes'[n].tx_queue) \ Headers(nodes[n].tx_queue) :
                    /\ header.hop_limit >= 0
                    /\ header.sender # n =>
                          \E packet \in passed :
                              /\ Forwards(header, packet)
                              /\ ~is_to_node(packet.header.dest, n)
                              /\ packet.header.sender # n
                              /\ packet.header.hop_limit > 0
              /\ \A x \in {em_field'[i] : i \in DOMAIN em_field'} :
                    x.transmitter_id = n => x.header.hop_limit >= 0]_vars

\* a node has transmitted a packet of another node that it was passed with
\* one hop more, and has been passed a packet with hop_limit 0 that is
\* neither to it nor from it
C28_Witness ==
    \E n \in Nodes :
        /\ nodes[n].model = "Meshtastic"
        /\ \E x \in Field : \E i \in DOMAIN budget.routed :
               /\ x.transmitter_id = n /\ x.header.sender # n
               /\ budget.routed[i].node_id = n
               /\ Forwards(x.header, budget.routed[i].packet)
        /\ \E i \in DOMAIN budget.routed :
               LET packet == budget.routed[i].packet
               IN  /\ budget.routed[i].node_id = n
                   /\ packet.header.hop_limit = 0
                   /\ packet.header.sender # n
                   /\ ~is_to_node(packet.header.dest, n)

(***************************************************************************)
(* Properties of the packets a Meshtastic node has seen before.            *)
(***************************************************************************)
\* the number of handle_received calls of the node for the packet: each
\* call logs the packet
HandledCount(log_entries, node_id, key) ==
    Cardinality({i \in DOMAIN log_entries :
                    /\ log_entries[i].source = node_id
                    /\ log_entries[i].content.type = "Text"
                    /\ log_entries[i].content.text[1] = "Received"
                    /\ global_id(log_entries[i].content.text[2]) = key})

\* the headers of the copies of the packet in the queue, first to last
KeyCopies(queue, key) ==
    LET copies == SelectSeq(queue, LAMBDA packet : global_id(packet) = key)
    IN  [i \in DOMAIN copies |-> copies[i].header]

\* Meshtastic::should_filter_received, is_repeated
RebroadcastsAgain(node_id, packet) ==
    /\ packet.header.hop_start > 0
    /\ packet.header.hop_start = packet.header.hop_limit
    /\ ~is_to_node(packet.header.dest, node_id)
    /\ packet.header.sender # node_id
    /\ packet.header.hop_limit > 0

\* the one packet the node's Routing thread is passed in this step, if it is
\* a packet of another node that the node has seen before
SeenAgain(node_id) ==
    LET before == Routed(budget.routed, node_id)
        after == Routed(budget'.routed, node_id)
    IN  IF /\ runs'.run = runs.run
           /\ Len(after) = Len(before) + 1
           /\ global_id(after[Len(after)]) \in nodes[node_id].seen_recently
           /\ after[Len(after)].header.sender # node_id
        THEN {after[Len(after)]} ELSE {}

\* C29: a Meshtastic node calls handle_received at most once for a
\* GlobalPacketId; when it is passed a packet of another node whose id is in
\* seen_recently it does not call handle_received, it removes the first
\* copy of the packet from the queue of its radio interface, and it queues
\* the packet again, with one hop less, only if hop_start > 0, hop_start =
\* hop_limit, the packet is not to the node and its hop_limit is above 0.
C29_Duplicates ==
    [][\A n \in Nodes : nodes[n].model = "Meshtastic" =>
          /\ \A i \in DOMAIN budget'.routed :
                HandledCount(logs', n, global_id(budget'.routed[i].packet)) <= 1
          /\ \A packet \in SeenAgain(n) :
                LET key == global_id(packet)
                    copies == KeyCopies(nodes[n].tx_queue, key)
                    kept == IF copies = <<>> THEN <<>> ELSE Tail(copies)
                    again == [packet.header EXCEPT
                                !.hop_limit = @ - 1,
                                !.want_ack = @ /\ packet.header.dest # Broadcast]
                IN  /\ HandledCount(logs', n, key) = HandledCount(logs, n, key)
                    /\ KeyCopies(nodes'[n].tx_queue, key) =
                           IF RebroadcastsAgain(n, packet) THEN Append(kept, again)
                           ELSE kept]_vars

\* a node has just been passed a packet it has seen before and has taken its
\* copy of it out of the queue of its radio interface
C29_Witness ==
    /\ obs.action = "MaybeNotify" /\ obs.arg = "RoutingThread"
    /\ nodes[obs.node_id].model = "Meshtastic"
    /\ Len(budget.routed) = Len(obs.pre.routed) + 1
    /\ LET packet == budget.routed[Len(budget.routed)].packet
           key == global_id(packet)
       IN  /\ key \in obs.pre.nodes[obs.node_id].seen_recently
           /\ packet.header.sender # obs.node_id
           /\ KeyCopies(obs.pre.nodes[obs.node_id].tx_queue, key) # <<>>
           /\ KeyCopies(nodes[obs.node_id].tx_queue, key) = <<>>
           /\ HandledCount(logs, obs.node_id, key) = 1

(***************************************************************************)
(* Properties of the hop limit of a response.                              *)
(***************************************************************************)
\* a Meshtastic node and the hop_start and hop_limit of a header it answers
InitHops ==
    \E hop_start \in 0 .. MaxHops : \E hop_limit \in 0 .. MaxHops :
        StartsAs([run_simulation(
                     [settings |-> [n \in Nodes |-> NodeSetting(7, "B868", 0)],
                      topology |-> TriangleWithTail, fading |-> Strong,
                      messages |-> <<>>, model |-> "Meshtastic", seed |-> 0])
                  EXCEPT !.obs = [call |-> "new", hop_start |-> hop_start,
                                  hop_limit |-> hop_limit, result |-> 0]])

\* the call of get_hop_limit_for_response in reliable_sniff_received
GetHopLimitForResponse ==
    /\ obs.call = "new"
    /\ Becomes([State EXCEPT
                  !.obs = [call |-> "get_hop_limit_for_response",
                           hop_start |-> obs.hop_start,
                           hop_limit |-> obs.hop_limit,
                           result |-> get_hop_limit_for_response(
                                          obs.hop_start, obs.hop_limit)]])

SpecHops == InitHops /\ [][GetHopLimitForResponse]_vars

HopsUsed(hop_start, hop_limit) ==
    IF hop_start < hop_limit THEN 3 ELSE hop_start - hop_limit

\* C30: for hop_start and hop_limit in 0 .. MaxHops, the value of
\* get_hop_limit_for_response is 3 when hop_start = 0; otherwise, with
\* hops_used = 3 if hop_start < hop_limit and hop_start - hop_limit if not,
\* it is hops_used if hops_used > 3, hops_used + 2 if hops_used + 2 < 3, and
\* 3 in every other case; it is never below hops_used.
C30_HopLimitForResponse ==
    obs.call = "get_hop_limit_for_response" =>
        LET hops_used == HopsUsed(obs.hop_start, obs.hop_limit)
        IN  /\ obs.hop_start = 0 => obs.result = 3
            /\ obs.hop_start # 0 /\ hops_used > 3 => obs.result = hops_used
            /\ obs.hop_start # 0 /\ hops_used <= 3 /\ hops_used + 2 < 3
                   => obs.result = hops_used + 2
            /\ obs.hop_start # 0 /\ hops_used <= 3 /\ hops_used + 2 >= 3
                   => obs.result = 3
            /\ obs.result >= hops_used

\* the answer to a header that has used more hops than the default limit
C30_Witness ==
    /\ obs.call = "get_hop_limit_for_response"
    /\ obs.hop_start # 0
    /\ HopsUsed(obs.hop_start, obs.hop_limit) > 3
    /\ obs.result = obs.hop_start - obs.hop_limit

(***************************************************************************)
(* Properties of the node model SimpleManagedFlooding.                     *)
(***************************************************************************)
\* the time node 2 takes to start a transmission handed to its radio: none,
\* or longer than the airtime of a packet
SimpleReactions == {0, 50 * MILLIS, 100 * MILLIS}

\* SimpleManagedFlooding nodes, in a line or all in reach of each other:
\* node 0 sends a broadcast and, ten seconds later, a packet to node 2
InitSimple ==
    \E seed \in Seeds : \E topology \in {Line, Points} :
    \E reaction_time \in SimpleReactions :
        StartsAs(run_simulation(
            [settings |-> [n \in Nodes |->
                 NodeSetting(7, "B868", IF n = 2 THEN reaction_time ELSE 0)],
             topology |-> topology, fading |-> Strong,
             messages |-> <<ScenarioMessage(0, Nodes \ {0}, 0, 1),
                            ScenarioMessage(0, {2}, 10 * SECONDS, 1),
                            ScenarioMessage(2, {2}, SIM_END, 1)>>,
             model |-> "SimpleManagedFlooding", seed |-> seed]))

SpecSimple == InitSimple /\ [][Next]_vars

\* the calls of send by the node with a packet of this id
Handed(handed, node_id, key) ==
    {i \in DOMAIN handed :
        handed[i].node_id = node_id /\ global_id(handed[i]) = key}

\* the ids of the packets that were handed to a radio interface
HandedKeys == {global_id(budget.handed[i]) : i \in DOMAIN budget.handed}

\* the node has logged this text about the id
Logged(node_id, text, key) ==
    \E i \in DOMAIN logs :
        /\ logs[i].source = node_id
        /\ logs[i].content.type = "Text"
        /\ logs[i].content.text[1] = text
        /\ key \in {logs[i].content.text[j] : j \in 2 .. Len(logs[i].content.text)}

\* C31: a SimpleManagedFlooding node calls send at most once for any
\* GlobalPacketId, as originator or as relay, and never for a packet of
\* another node's that is addressed to itself.
C31_HandedOnce ==
    \A n \in Nodes : nodes[n].model = "SimpleManagedFlooding" =>
        /\ \A key \in HandedKeys : Cardinality(Handed(budget.handed, n, key)) <= 1
        /\ \A i \in DOMAIN budget.handed :
              budget.handed[i].node_id = n /\ budget.handed[i].header.sender # n
                  => ~is_to_node(budget.handed[i].header.dest, n)

\* a node is passed a packet that it has handed to its radio interface
\* before, and does not hand it over again
C31_Witness ==
    /\ obs.action = "RecieveMessage"
    /\ nodes[obs.node_id].model = "SimpleManagedFlooding"
    /\ \E i \in DOMAIN obs.calls :
          /\ obs.calls[i].name = "receive_message"
          /\ Cardinality(Handed(budget.handed, obs.node_id,
                                global_id(obs.calls[i].args))) = 1
          /\ Logged(obs.node_id, "cancel_sending called for",
                    global_id(obs.calls[i].args))

\* C32: a SimpleManagedFlooding node that starts to transmit a packet of
\* another node's has not been passed the packet a second time before:
\* it has not called cancel_sending for the packet's id.
C32_CancelledNeverSent ==
    obs.action = "SendMessage" /\ ~obs.busy
        /\ nodes[obs.node_id].model = "SimpleManagedFlooding"
        /\ obs.arg.header.sender # obs.node_id
    => ~Logged(obs.node_id, "cancel_sending called for", global_id(obs.arg))

(***************************************************************************)
(* Properties of the node model AcknowledgedOrRepeatFlood.                 *)
(***************************************************************************)
\* AcknowledgedOrRepeatFlood nodes at spreading factor 12, whose packets
\* stay on the air for a second, in a line or all in reach of each other:
\* nodes 0 and 1 each generate a message at the start, node 1 for all nodes
\* or for node 2
InitRepeat ==
    \E seed \in 0 .. 3 : \E topology \in {Line, Points} :
    \E targets \in {Nodes \ {1}, {2}} :
        StartsAs(run_simulation(
            [settings |-> [n \in Nodes |-> NodeSetting(12, "B868", 0)],
             topology |-> topology, fading |-> Strong,
             messages |-> <<ScenarioMessage(0, Nodes \ {0}, 0, 1),
                            ScenarioMessage(1, targets, 0, 1),
                            ScenarioMessage(2, {2}, SIM_END, 1)>>,
             model |-> "AcknowledgedOrRepeatFlood", seed |-> seed]))

SpecRepeat == InitRepeat /\ [][Next]_vars

\* the copies of the packet with this id in a queue of packets
Copies(queue, key) == {i \in DOMAIN queue : global_id(queue[i]) = key}

\* the ids of the packets in a rebroadcast queue
Awaiting(rebroadcasts_queue) ==
    {global_id(rebroadcasts_queue[i].packet) : i \in DOMAIN rebroadcasts_queue}

\* C33: an AcknowledgedOrRepeatFlood node calls send at most
\* 1 + MAX_REBROADCASTS = 4 times for any GlobalPacketId and at most once
\* for a custom (GlobalAck) packet; after the fourth call, and after the call for a custom packet, the id is in
\* acknowledgements and not in the rebroadcast queue.
C33_HandedFourTimes ==
    \A n \in Nodes : nodes[n].model = "AcknowledgedOrRepeatFlood" =>
        /\ \A key \in HandedKeys :
              LET calls == Handed(budget.handed, n, key)
                  last == Cardinality(calls) = 1 + MAX_REBROADCASTS
                             \/ \E i \in calls :
                                   budget.handed[i].content.type = "NodeMessage"
              IN  /\ Cardinality(calls) <= 1 + MAX_REBROADCASTS
                  /\ (\E i \in calls : budget.handed[i].content.type = "NodeMessage")
                         => Cardinality(calls) = 1
                  /\ last => /\ key \in nodes[n].acknowledgements
                             /\ key \notin Awaiting(nodes[n].rebroadcasts)

\* the Routing thread of a node hands a packet over for the fourth time
\* and acknowledges it, in a run in which a GlobalAck was handed over
C33_Witness ==
    /\ obs.action = "MaybeNotify" /\ obs.arg = "RoutingThread"
    /\ nodes[obs.node_id].model = "AcknowledgedOrRepeatFlood"
    /\ Len(budget.handed) = Len(obs.pre.handed) + 1
    /\ LET last == budget.handed[Len(budget.handed)]
       IN  /\ last.node_id = obs.node_id
           /\ Cardinality(Handed(budget.handed, obs.node_id, global_id(last)))
                  = 1 + MAX_REBROADCASTS
           /\ global_id(last) \in nodes[obs.node_id].acknowledgements
           /\ global_id(last) \notin obs.pre.nodes[obs.node_id].acknowledgements
    /\ \E i \in DOMAIN budget.handed : budget.handed[i].content.type = "NodeMessage"

\* C34: an AcknowledgedOrRepeatFlood node that has removed id X from its
\* rebroadcast queue, because it observed a GlobalAck for X or received X
\* again, has X in acknowledgements, has no copy of X in the rebroadcast
\* queue or in the tx queue of its radio interface, and starts no
\* transmission of X.
C34_NoCopyLeft ==
    \A n \in Nodes : nodes[n].model = "AcknowledgedOrRepeatFlood" =>
        \A key \in HandedKeys :
            Logged(n, "was removed from rebroadcasts and sending cancelled", key)
                => /\ key \in nodes[n].acknowledgements
                   /\ key \notin Awaiting(nodes[n].rebroadcasts)
                   /\ Copies(nodes[n].tx_queue, key) = {}
                   /\ ~(/\ obs.action = "SendMessage" /\ ~obs.busy
                        /\ obs.node_id = n /\ global_id(obs.arg) = key)

\* the notify_later calls of the last dispatch for the node's Routing thread
RoutingSets(n) ==
    {i \in DOMAIN obs.nl : obs.nl[i].node_id = n /\ obs.nl[i].thread = "RoutingThread"}

\* C35: before the cutoff every AcknowledgedOrRepeatFlood node has a
\* Routing notification pending on its Routing thread with its MaybeNotify
\* event in the event queue, which is therefore not empty; every
\* notification of the thread is set, over the one pending, for a time at
\* least 1 s and less than 20 s after the call, and no dispatch takes more
\* than one packet out of a rebroadcast queue or calls send twice.
C35_RoutingAlive ==
    /\ sim_time < SIM_END =>
          /\ event_queue # <<>>
          /\ \A n \in Nodes : nodes[n].model = "AcknowledgedOrRepeatFlood"
                => WakeUpPending(n, "RoutingThread", "Routing")
    /\ \A n \in Nodes : nodes[n].model = "AcknowledgedOrRepeatFlood" =>
          /\ \A i \in RoutingSets(n) :
                /\ obs.nl[i].notif = "Routing"
                /\ obs.nl[i].post_status[n]["RoutingThread"] =
                       [notification |-> "Routing",
                        at_time |-> obs.nl[i].now + obs.nl[i].delay]
                /\ SECONDS <= obs.nl[i].delay
                /\ obs.nl[i].delay < 20 * SECONDS
          /\ obs.action # "Init" =>
                /\ Len(nodes[n].rebroadcasts)
                       >= Len(obs.pre.nodes[n].rebroadcasts) - 1
                /\ Len(budget.handed) <= Len(obs.pre.handed) + 1

\* the Routing thread of a node has fired with two packets in the
\* rebroadcast queue, has taken one of them, and is set for a second later
C35_Witness ==
    /\ obs.action = "MaybeNotify" /\ obs.arg = "RoutingThread"
    /\ nodes[obs.node_id].model = "AcknowledgedOrRepeatFlood"
    /\ Len(obs.pre.nodes[obs.node_id].rebroadcasts) = 2
    /\ Len(budget.handed) = Len(obs.pre.handed) + 1
    /\ notify_status[obs.node_id]["RoutingThread"].at_time = sim_time + SECONDS
    /\ WakeUpPending(obs.node_id, "RoutingThread", "Routing")

(***************************************************************************)
(* Properties of the node model ProbabilisticFlood.  In SpecRelay the node *)
(* model of node 0 is a component: the network beyond its neighbours, any  *)
(* number of relays long, passes it packets of node 1 that have used up    *)
(* zero to three hops, and the simulation dispatches its notifications and *)
(* transmissions.                                                          *)
(***************************************************************************)
InitRelay ==
    \E seed \in 0 .. 3 :
        StartsAs(run_simulation(
            [settings |-> [n \in Nodes |-> NodeSetting(7, "B868", 0)],
             topology |-> [kind |-> "Graph", adj |-> [n \in Nodes |-> {}]],
             fading |-> Strong, messages |-> <<>>,
             model |-> "ProbabilisticFlood", seed |-> seed]))

\* the header of packet packet_id of node 1 with hop_limit hops left
RelayedHeader(packet_id, hop_limit, dest) ==
    [meshtastic_header(1, packet_id, [targets |-> {}]) EXCEPT
        !.hop_limit = hop_limit, !.dest = dest]

\* node 0 is passed the next packet of node 1
RelayReceive ==
    \E hop_limit \in 0 .. DEFAULT_HOP_LIMIT : \E dest \in {Broadcast, 0} :
        /\ Cardinality(nodes[0].seen) < MaxPackets
        /\ \E s2 \in receive_message(
                        [State EXCEPT !.obs =
                            NewObs([action |-> "Call", node_id |-> 0, arg |-> 0,
                                    time |-> sim_time], State, sim_time)],
                        0, RelayedHeader(Cardinality(nodes[0].seen), hop_limit, dest),
                        Empty, 20, 10) :
               Becomes(s2)

SpecRelay ==
    InitRelay /\ [][RelayReceive \/ StepSendMessage \/ StepMaybeNotify]_vars

\* ProbabilisticFlood nodes in a line or all in reach of each other: node 0
\* sends a broadcast and node 1 a packet to node 2
InitProb ==
    \E seed \in 0 .. 3 : \E topology \in {Line, Points} :
        StartsAs(run_simulation(
            [settings |-> [n \in Nodes |-> NodeSetting(7, "B868", 0)],
             topology |-> topology, fading |-> Strong,
             messages |-> <<ScenarioMessage(0, Nodes \ {0}, 0, 1),
                            ScenarioMessage(1, {2}, 10 * SECONDS, 1),
                            ScenarioMessage(2, {2}, SIM_END, 1)>>,
             model |-> "ProbabilisticFlood", seed |-> seed]))

SpecProb == InitProb /\ [][Next]_vars

\* the draws the step has taken from the random stream
Drawn == (rng'.pos - rng.pos) % StreamLen

\* C36: a ProbabilisticFlood node that is passed a packet it has not seen
\* and that is not addressed to it calls send with the packet and
\* hop_limit - 1, taking no draw for the decision, if
\* hop_start - hop_limit < MIN_HOPS = 2; otherwise it takes one draw and
\* calls send likewise if and only if the draw is below 0.65; in both
\* cases, and whatever the decision, the id is in seen afterwards.
C36_Rebroadcast ==
    [][\A i \in DOMAIN obs'.calls :
          LET n == obs'.node_id
              header == obs'.calls[i].args.header
              key == global_id(obs'.calls[i].args)
              far == header.hop_start - header.hop_limit >= 2
              below == rng.stream[rng.pos + 1] * 100 < 65 * RngDen
              queued == SubSeq(budget'.handed, Len(budget.handed) + 1,
                               Len(budget'.handed))
              rebroadcast ==
                  /\ Len(queued) = 1
                  /\ queued[1].node_id = n
                  /\ queued[1].header = [header EXCEPT !.hop_limit = @ - 1]
                  /\ Len(nodes'[n].tx_queue) = Len(nodes[n].tx_queue) + 1
          IN  /\ obs'.calls[i].name = "receive_message"
              /\ nodes[n].model = "ProbabilisticFlood"
              /\ key \notin nodes[n].seen
              /\ ~is_to_node(header.dest, n)
              => /\ key \in nodes'[n].seen
                 /\ ~far => rebroadcast /\ Drawn = 1
                 /\ far /\ below => rebroadcast /\ Drawn = 2
                 /\ far /\ ~below =>
                       /\ queued = <<>> /\ Drawn = 1
                       /\ nodes'[n].tx_queue = nodes[n].tx_queue]_vars

\* node 0 has dropped a packet that came two hops or more, after it had
\* queued the rebroadcast of one that came as far and of one that came
\* one hop
C36_Witness ==
    /\ obs.action = "Call"
    /\ Len(budget.handed) = Len(obs.pre.handed)
    /\ \E i \in DOMAIN obs.calls :
          /\ obs.calls[i].args.header.dest = Broadcast
          /\ obs.calls[i].args.header.hop_limit <= 1
          /\ global_id(obs.calls[i].args) \notin obs.pre.nodes[0].seen
          /\ global_id(obs.calls[i].args) \in nodes[0].seen
    /\ \E i, j \in DOMAIN budget.handed :
          /\ budget.handed[i].header.hop_limit = 1
          /\ budget.handed[j].header.hop_limit = 0

\* C37: every header a ProbabilisticFlood node passes to send has a
\* hop_limit of 0 or more: a packet received with hop_limit 0 is not
\* rebroadcast.
C37_HopLimit ==
    \A i \in DOMAIN budget.handed :
        nodes[budget.handed[i].node_id].model = "ProbabilisticFlood"
            => budget.handed[i].header.hop_limit >= 0

\* C38: a ProbabilisticFlood node calls send at most once for any
\* GlobalPacketId, as originator or as relay.
C38_HandedOnce ==
    \A n \in Nodes : nodes[n].model = "ProbabilisticFlood" =>
        \A key \in HandedKeys : Cardinality(Handed(budget.handed, n, key)) <= 1

(***************************************************************************)
(* Properties of the reception decision for transmissions that overlap.    *)
(***************************************************************************)
\* fading samples that leave two powers equal, 0.5 dB, 1 dB or 1.5 dB apart
NearlyEqual == {10, 12, 13}

\* a line of SimpleManagedFlooding nodes whose ends do not hear each other
\* and send at the same time or 10 ms apart: their transmissions overlap at
\* node 1
InitCapture ==
    \E seed \in Seeds : \E gap \in {0, 10 * MILLIS} :
        StartsAs(run_simulation(
            [settings |-> [n \in Nodes |-> NodeSetting(7, "B868", 0)],
             topology |-> Line, fading |-> NearlyEqual,
             messages |-> <<ScenarioMessage(0, Nodes \ {0}, 0, 1),
                            ScenarioMessage(2, Nodes \ {2}, gap, 1),
                            ScenarioMessage(2, {2}, SIM_END, 1)>>,
             model |-> "SimpleManagedFlooding", seed |-> seed]))

SpecCapture == InitCapture /\ [][Next]_vars

\* the receiver has received the transmission
Received(at_node, x) ==
    \E i \in DOMAIN budget.received :
        /\ budget.received[i].node_id = at_node
        /\ budget.received[i].transmission_id = x.id
        /\ budget.received[i].result = "Success"

\* both transmissions have a power at the receiver, at or above the read
\* threshold, and overlap in time with the same spreading factor and band
Compete(at_node, x, y) ==
    /\ x.id # y.id
    /\ x.sf = y.sf /\ x.carrier_band = y.carrier_band
    /\ overlaps(x, y)
    /\ IsCached(cached_power_at, x.id, at_node)
    /\ IsCached(cached_power_at, y.id, at_node)
    /\ cached_power_at[<<x.id, at_node>>] >= snr_read_threshold(x.sf)
    /\ cached_power_at[<<y.id, at_node>>] >= snr_read_threshold(y.sf)

\* C39: of two transmissions with the same spreading factor and carrier
\* band that overlap in time and are both above the read threshold at a
\* receiver, one is received there only if its power exceeds the other's
\* by more than 1 dB (2 half-dB); so at most one of them is received.
C39_CaptureEffect ==
    \A n \in Nodes : \A x, y \in Field :
        Compete(n, x, y) /\ Received(n, x)
            => /\ cached_power_at[<<x.id, n>>] - cached_power_at[<<y.id, n>>] > 2
               /\ ~Received(n, y)

\* node 1 has received the stronger of two overlapping transmissions, 1.5 dB
\* above the other, and the decision about the weaker one has been made
C39_Witness ==
    \E x, y \in Field :
        /\ Compete(1, x, y) /\ Received(1, x)
        /\ cached_power_at[<<x.id, 1>>] - cached_power_at[<<y.id, 1>>] = 3
        /\ \E i \in DOMAIN budget.received :
              /\ budget.received[i].node_id = 1
              /\ budget.received[i].transmission_id = y.id
              /\ budget.received[i].result = "Blocked"

\* C40: a node that has just received a transmission is on the carrier band
\* of the transmission and reports it as detected.
C40_ReceivedIsDetected ==
    obs.action = "RecieveMessage" /\ obs.result = "Success" =>
        LET x == find_transmission(em_field, obs.arg)
        IN  /\ node_settings[obs.node_id].carrier_band = x.carrier_band
            /\ detected_at(State, cached_power_at, obs.node_id, x)

====
